---- MODULE Spec2Model ----
(***************************************************************************)
(* Model of the CloudWatch -> SNS -> PagerDuty reconciliation scripts      *)
(* all.py (all teams) and new.py (one team): the offset-paginated,         *)
(* rate-limit-aware index build, then the region / alarm / target /        *)
(* subscription scan that appends the report rows.                         *)
(*                                                                         *)
(* Representation of Python values:                                        *)
(*   - a dict is a record / function whose DOMAIN is the set of keys that  *)
(*     are present, so d.get(k, dflt) is a test on DOMAIN;                 *)
(*   - identifiers and names are TLA+ strings, None is the string "None";  *)
(*   - endpoints and integration keys are sequences of one-character       *)
(*     strings, so that the regular expression and the substring test are  *)
(*     computed character by character; None where such a sequence is      *)
(*     expected is <<"None">>;                                             *)
(*   - an alarm action that is a str is the sequence of its ":"-separated  *)
(*     components (the ARN "a:b:c" is <<"a","b","c">>, "" is <<"">>);      *)
(*     the cloud API only returns str actions, so isinstance(arn, str)     *)
(*     always holds.                                                       *)
(* rowSrc, awsLog, alarmLog and failedRegions are history variables: they  *)
(* record where each row comes from and which remote calls were made.      *)
(***************************************************************************)
EXTENDS Integers, Sequences, FiniteSets, TLC

\* ------------------------------------------------------------------ bounds
\* most consecutive 429 answers the platform gives to one page request
\* (when it is not throttling forever)
MaxRetries == 2
\* most alarms the account holds over all regions
MaxAlarms == 2
MaxPieces == 3

\* ------------------------------------------------------- program constants
limit == 100

None == "None"
NoneKey == <<None>>
UNKNOWN == "UNKNOWN"
NOT_FOUND == "NOT_FOUND"
NoName == "<no-name>"

\* statuses the incident platform can answer with
OK == 200
RateLimited == 429
ErrorStatuses == {403, 500}
\* no request outstanding
NoResp == 0

\* ------------------------------------------------------------ Python dicts
Get(d, k, dflt) == IF k \in DOMAIN d THEN d[k] ELSE dflt

Put(d, k, v) == [x \in (DOMAIN d) \cup {k} |-> IF x = k THEN v ELSE d[x]]

EmptyDict == [x \in {} |-> None]

\* truth value of a str-or-None holding a character sequence
Truthy(key) == key # NoneKey /\ key # <<>>

\* ------------------------------------------------- incident-platform data
K1 == <<"K", "1">>
K2 == <<"K", "2">>
K3 == <<"K", "3">>
K9 == <<"K", "9">>

\* pages of GET /teams, page i answering offset (i-1)*limit
TP1 == << [teams |-> << [id |-> "T1", name |-> "Platform"] >>] >>
TP2 == << [teams |-> << [id |-> "T1", name |-> "Platform"] >>, more |-> TRUE],
          [teams |-> << [id |-> "T2", name |-> "Payments"] >>, more |-> FALSE] >>
TP3 == << [teams |-> << [id |-> "T2", name |-> "Payments"], [id |-> "T1"] >>] >>
TP4 == << [more |-> FALSE] >>

\* pages of GET /services
SP1 == << [services |-> <<
             [id |-> "S1", name |-> "api", teams |-> << [id |-> "T1"] >>,
              integrations |-> << [integration_key |-> K1] >>] >>],
          [services |-> <<
             [id |-> "S9", name |-> "late", teams |-> << >>,
              integrations |-> << [integration_key |-> K9] >>] >>] >>
SP2 == << [services |-> <<
             [id |-> "S1", name |-> "api",
              teams |-> << [id |-> "T1"], [id |-> "T2"] >>,
              integrations |-> << [integration_key |-> K1],
                                  [integration_key |-> <<>>],
                                  [integration_key |-> K3] >>],
             [id |-> "S2", name |-> "db", teams |-> << >>,
              integrations |-> << [integration_key |-> K2] >>] >>,
           more |-> TRUE],
          [services |-> <<
             [id |-> "S3", name |-> "web", teams |-> << [id |-> "T3"] >>,
              integrations |-> << [integration_key |-> K1] >>] >>] >>
SP3 == << [services |-> <<
             [name |-> "ghost",
              integrations |-> << [type |-> "email"],
                                  [integration_key |-> K2] >>],
             [id |-> "S4", teams |-> << [summary |-> "x"] >>,
              integrations |-> << [integration_key |-> NoneKey],
                                  [integration_key |-> K1],
                                  [integration_key |-> K2] >>],
             [id |-> "S5", name |-> "bare"] >>,
           more |-> FALSE] >>

\* the platform states a run of all.py can meet: <<team pages, service pages>>
PDWorlds == { <<TP1, SP1>>, <<TP2, SP2>>, <<TP3, SP1>>, <<TP4, SP3>> }

\* new.py never requests the teams: only the service pages matter to it
PDWorldsNew == { <<TP4, SP1>>, <<TP4, SP2>>, <<TP4, SP3>> }

\* the JSON body answered to a request at `off`: the page holding that
\* offset, or an empty body past the last page
PageAt(pages, off) ==
  IF off \div limit + 1 \in DOMAIN pages THEN pages[off \div limit + 1]
  ELSE EmptyDict

\* ------------------------------------------------------- fetch_all_pd_teams
\* t["id"] or t["name"] raises KeyError on a team object lacking the field
TeamsKeyError(ts) ==
  \E i \in DOMAIN ts : "id" \notin DOMAIN ts[i] \/ "name" \notin DOMAIN ts[i]

\* for t in data.get("teams", []): teams[t["id"]] = t["name"]: the dict as
\* the loop leaves it, at its end or at the team whose subscript raises
\* KeyError (nothing is stored for that team)
RECURSIVE TeamsLoop(_, _)
TeamsLoop(teams, ts) ==
  IF ts = << >> THEN teams
  ELSE IF TeamsKeyError(<< Head(ts) >>) THEN teams
  ELSE TeamsLoop(Put(teams, Head(ts).id, Head(ts).name), Tail(ts))

\* ------------------------------- fetch_all_pd_services_with_integrations
\* variant: the last associated team is taken instead of the first
ServiceTeam_LastTeam(s, teams_map) ==
  LET service_teams == Get(s, "teams", << >>) IN
  IF service_teams # << >>
  THEN LET team_id == Get(service_teams[Len(service_teams)], "id", None) IN
       [team_id |-> team_id, team_name |-> Get(teams_map, team_id, UNKNOWN)]
  ELSE [team_id |-> UNKNOWN, team_name |-> UNKNOWN]

\* team of a service (all.py)
ServiceTeam(s, teams_map) ==
  LET service_teams == Get(s, "teams", << >>) IN
  IF service_teams # << >>
  THEN LET team_id == Get(service_teams[1], "id", None) IN
       [team_id |-> team_id, team_name |-> Get(teams_map, team_id, UNKNOWN)]
  ELSE [team_id |-> UNKNOWN, team_name |-> UNKNOWN]

\* the value stored under an integration key of service s
AllEntry(s, teams_map) ==
  [service_id |-> Get(s, "id", None),
   service_name |-> Get(s, "name", None),
   team_id |-> ServiceTeam(s, teams_map).team_id,
   team_name |-> ServiceTeam(s, teams_map).team_name]

NewEntry(s) == << Get(s, "id", None), Get(s, "name", None) >>

Entry(scr, s, teams_map) ==
  IF scr = "all" THEN AllEntry(s, teams_map) ELSE NewEntry(s)

RECURSIVE IntegrationsLoop(_, _, _)
RECURSIVE IntegrationsLoop_FirstWins(_, _, _)

\* variant: a key already in the index keeps its entry
IntegrationsLoop_FirstWins(lookup, integrations, entry) ==
  IF integrations = << >> THEN lookup
  ELSE LET key == Get(Head(integrations), "integration_key", NoneKey) IN
       IntegrationsLoop_FirstWins(
         IF Truthy(key) /\ key \notin DOMAIN lookup
         THEN Put(lookup, key, entry) ELSE lookup,
         Tail(integrations), entry)

\* for integ in integrations: key = integ.get("integration_key"); if key: ...
IntegrationsLoop(lookup, integrations, entry) ==
  IF integrations = << >> THEN lookup
  ELSE LET key == Get(Head(integrations), "integration_key", NoneKey) IN
       IntegrationsLoop(IF Truthy(key) THEN Put(lookup, key, entry) ELSE lookup,
                        Tail(integrations), entry)

\* for s in services: ...
RECURSIVE ServicesLoop(_, _, _, _)
ServicesLoop(scr, lookup, services, teams_map) ==
  IF services = << >> THEN lookup
  ELSE LET s == Head(services) IN
       ServicesLoop(scr,
                    IntegrationsLoop(lookup, Get(s, "integrations", << >>),
                                     Entry(scr, s, teams_map)),
                    Tail(services), teams_map)

\* ------------------------------------------------------------- KeyResolver
PD == <<"p", "a", "g", "e", "r", "d", "u", "t", "y">>
INTEG == <<"/", "i", "n", "t", "e", "g", "r", "a", "t", "i", "o", "n", "/">>

\* Python `needle in s` on strings
Contains(s, needle) ==
  \E i \in 1..(Len(s) - Len(needle) + 1) :
     SubSeq(s, i, i + Len(needle) - 1) = needle

\* the pattern /integration/([^/]+)/? matches starting at position i
MatchAt(s, i) ==
  /\ i + Len(INTEG) <= Len(s)
  /\ SubSeq(s, i, i + Len(INTEG) - 1) = INTEG
  /\ s[i + Len(INTEG)] # "/"

\* variant: group 1 stops after its first character
Group1_FirstChar(s, i) ==
  SubSeq(s, i + Len(INTEG), i + Len(INTEG))

\* group 1 of the match starting at i: the greedy run of non-slash characters
Group1(s, i) ==
  LET from == i + Len(INTEG)
      stop == IF \E j \in from..Len(s) : s[j] = "/"
              THEN (CHOOSE j \in from..Len(s) :
                      /\ s[j] = "/"
                      /\ \A k \in from..(j - 1) : s[k] # "/") - 1
              ELSE Len(s)
  IN SubSeq(s, from, stop)

\* m = re.search(r"/integration/([^/]+)/?", endpoint): leftmost match
extract_key_from_pd(endpoint) ==
  IF \E i \in 1..Len(endpoint) : MatchAt(endpoint, i)
  THEN Group1(endpoint,
              CHOOSE i \in 1..Len(endpoint) :
                 /\ MatchAt(endpoint, i)
                 /\ \A j \in 1..(i - 1) : ~MatchAt(endpoint, j))
  ELSE NoneKey

extract_integration_key_from_url(url) ==
  IF url = << >> THEN NoneKey ELSE extract_key_from_pd(url)

ExtractKey(scr, endpoint) ==
  IF scr = "all" THEN extract_key_from_pd(endpoint)
  ELSE extract_integration_key_from_url(endpoint)

\* endpoint strings: every concatenation of at most MaxPieces pieces
Pieces == { << "/" >>, << "a" >>, K1, INTEG, SubSeq(INTEG, 2, 12),
            << "/", "I" >> \o SubSeq(INTEG, 3, 13) }

RECURSIVE Concats(_)
Concats(n) ==
  IF n = 0 THEN { << >> }
  ELSE LET shorter == Concats(n - 1) IN
       shorter \cup { p \o q : p \in shorter, q \in Pieces }

Urls == Concats(MaxPieces)

\* -------------------------------------------------------------- cloud data
Regions == << "us-east-1", "eu-west-1" >>

ArnA == << "arn", "aws", "sns", "r", "1", "A" >>
ArnB == << "arn", "aws", "sns", "r", "1", "B" >>
ArnC == << "arn", "aws", "sns", "r", "1", "C" >>
Asg == << "arn", "aws", "autoscaling", "r", "1", "scale-out" >>
EmptyStr == << "" >>

EpK1 == PD \o INTEG \o K1 \o << "/", "e" >>
EpK2 == << "x", "." >> \o PD \o INTEG \o K2
EpK9 == PD \o INTEG \o K9 \o << "/" >>
EpNoKey == PD \o << "/", "v", "2" >>
EpEmptyKey == PD \o INTEG \o << "/" >>
EpOther == << "m" >> \o INTEG \o K1
EpMail == << "a", "@", "b" >>

\* the pages of list_subscriptions_by_topic of each topic
TopicSubs(arn) ==
  IF arn = ArnA
  THEN << [Subscriptions |-> << [Endpoint |-> EpK1], [Endpoint |-> EpMail] >>],
          [Subscriptions |-> << [Endpoint |-> EpK9], [Endpoint |-> EpOther] >>] >>
  ELSE IF arn = ArnB
  THEN << [Subscriptions |-> << [Endpoint |-> EpNoKey], [Protocol |-> "sms"],
                                [Endpoint |-> EpEmptyKey],
                                [Endpoint |-> EpOther] >>] >>
  ELSE IF arn = ArnC
  THEN << [Subscriptions |-> << [Endpoint |-> EpK2] >>] >>
  ELSE << EmptyDict >>

\* the alarms a describe_alarms page can hold
AlarmChoices ==
  { [AlarmName |-> "cpu"],
    [AlarmName |-> "disk", AlarmActions |-> << >>, ActionsEnabled |-> TRUE],
    [AlarmName |-> "lat", AlarmActions |-> << ArnA >>, ActionsEnabled |-> TRUE],
    [AlarmName |-> "scale", AlarmActions |-> << Asg >>, ActionsEnabled |-> TRUE],
    [AlarmName |-> "mem", AlarmActions |-> << ArnC >>, ActionsEnabled |-> FALSE],
    [AlarmActions |-> << Asg, ArnB, ArnC >>] }

\* ---------------------------------------------------------------- the scan
\* variant: every ARN counts as a notification topic
IsTopicArn_AnyArn(arn) ==
  Len(arn) >= 3 /\ SubSeq(arn, 1, 2) = << "arn", "aws" >>

\* arn.startswith("arn:aws:sns:") on the ":"-separated components
IsTopicArn(arn) ==
  Len(arn) >= 4 /\ SubSeq(arn, 1, 3) = << "arn", "aws", "sns" >>

\* sns_arn.rsplit(":", 1)[-1]  /  sns_arn.split(":")[-1]
TopicName(arn) == arn[Len(arn)]

\* alarm.get("AlarmActions") or []
ActionsOf(a) == Get(a, "AlarmActions", << >>)

\* variant: an alarm without the flag counts as enabled
ActionStatus_DefaultEnabled(a) ==
  IF Get(a, "ActionsEnabled", TRUE) THEN "ENABLED" ELSE "DISABLED"

\* "ENABLED" if alarm.get("ActionsEnabled", False) else "DISABLED"
ActionStatus(a) ==
  IF Get(a, "ActionsEnabled", FALSE) THEN "ENABLED" ELSE "DISABLED"

Row(scr, region, name, status, arn, tname, key, sname, sid, tmname, tmid) ==
  IF scr = "all"
  THEN [Region |-> region, AlarmName |-> name, AlarmActionStatus |-> status,
        SNSTopicArn |-> arn, SNSTopicName |-> tname, IntegrationKey |-> key,
        PagerDutyServiceName |-> sname, PagerDutyServiceID |-> sid,
        PagerDutyTeamName |-> tmname, PagerDutyTeamID |-> tmid]
  ELSE [Region |-> region, AlarmName |-> name, AlarmActionStatus |-> status,
        SNSTopicArn |-> arn, SNSTopicName |-> tname, IntegrationKey |-> key,
        PagerDutyServiceName |-> sname, PagerDutyServiceID |-> sid]

\* variant: the row of an alarm without actions carries an enabled status
NoActionRow_EnabledStatus(scr, region, name) ==
  Row(scr, region, name, "ENABLED", EmptyStr, "", << >>, "", "", "", "")

NoActionRow(scr, region, name) ==
  Row(scr, region, name, "NO_ACTION", EmptyStr, "", << >>, "", "", "", "")

\* variant: the row of a topic without matching subscription carries the
\* sentinels
NotFoundRow_Sentinels(scr, region, name, status, arn) ==
  Row(scr, region, name, status, arn, TopicName(arn), << >>, NOT_FOUND,
      NOT_FOUND, UNKNOWN, UNKNOWN)

NotFoundRow(scr, region, name, status, arn) ==
  Row(scr, region, name, status, arn, TopicName(arn), << >>, "", "", "", "")

\* pd_lookup.get(key, <sentinels>)
PdInfo(scr, index, key) ==
  IF scr = "all"
  THEN Get(index, key, [service_id |-> NOT_FOUND, service_name |-> NOT_FOUND,
                        team_id |-> UNKNOWN, team_name |-> UNKNOWN])
  ELSE LET t == Get(index, key, << NOT_FOUND, NOT_FOUND >>) IN
       [service_id |-> t[1], service_name |-> t[2],
        team_id |-> "", team_name |-> ""]

FoundRow(scr, region, name, status, arn, key, index) ==
  LET pd_info == PdInfo(scr, index, key) IN
  Row(scr, region, name, status, arn, TopicName(arn), key,
      pd_info.service_name, pd_info.service_id,
      pd_info.team_name, pd_info.team_id)

\* variant: the marker alone makes the subscription contribute a row
Matches_MarkerOnly(scr, sub) ==
  LET endpoint == Get(sub, "Endpoint", << >>) IN
  Contains(endpoint, PD)

\* the subscription contributes a row: its endpoint holds the marker and a key
Matches(scr, sub) ==
  LET endpoint == Get(sub, "Endpoint", << >>) IN
  Contains(endpoint, PD) /\ Truthy(ExtractKey(scr, endpoint))

RECURSIVE SubsLoop(_, _, _, _, _, _, _, _, _)
RECURSIVE SubsLoop_FoundOnlyIfIndexed(_, _, _, _, _, _, _, _, _)

\* variant: a key that the index does not hold leaves pd_found unset
SubsLoop_FoundOnlyIfIndexed(scr, region, name, status, arn, index, subs, i, acc) ==
  IF subs = << >> THEN acc
  ELSE LET endpoint == Get(Head(subs), "Endpoint", << >>)
           next ==
             IF Matches(scr, Head(subs))
             THEN [found |-> acc.found
                             \/ ExtractKey(scr, endpoint) \in DOMAIN index,
                   rows |-> Append(acc.rows,
                              FoundRow(scr, region, name, status, arn,
                                       ExtractKey(scr, endpoint), index)),
                   subIdx |-> Append(acc.subIdx, i)]
             ELSE acc
       IN SubsLoop_FoundOnlyIfIndexed(scr, region, name, status, arn, index,
                                      Tail(subs), i + 1, next)

\* for sub in subs: ... ; acc is [found, rows, src], i the position of Head
SubsLoop(scr, region, name, status, arn, index, subs, i, acc) ==
  IF subs = << >> THEN acc
  ELSE LET endpoint == Get(Head(subs), "Endpoint", << >>)
           next ==
             IF Matches(scr, Head(subs))
             THEN [found |-> TRUE,
                   rows |-> Append(acc.rows,
                              FoundRow(scr, region, name, status, arn,
                                       ExtractKey(scr, endpoint), index)),
                   subIdx |-> Append(acc.subIdx, i)]
             ELSE acc
       IN SubsLoop(scr, region, name, status, arn, index, Tail(subs), i + 1,
                   next)

\* variant: no row is added when no subscription matched
TargetRows_NoFallback(scr, region, name, status, arn, index, subs) ==
  LET acc == SubsLoop(scr, region, name, status, arn, index, subs, 1,
                      [found |-> FALSE, rows |-> << >>, subIdx |-> << >>])
  IN [rows |-> acc.rows, subIdx |-> acc.subIdx]

\* variant: the rows of a target come out last subscription first
TargetRows_LastFirst(scr, region, name, status, arn, index, subs) ==
  LET acc == SubsLoop(scr, region, name, status, arn, index, subs, 1,
                      [found |-> FALSE, rows |-> << >>, subIdx |-> << >>])
      n == Len(acc.rows)
  IN IF ~acc.found
     THEN [rows |-> << NotFoundRow(scr, region, name, status, arn) >>,
           subIdx |-> << 0 >>]
     ELSE [rows |-> [i \in 1..n |-> acc.rows[n + 1 - i]],
           subIdx |-> [i \in 1..n |-> acc.subIdx[n + 1 - i]]]

\* the rows one topic target appends, with the subscription each comes from
\* (0 for the row of `if not pd_found`)
TargetRows(scr, region, name, status, arn, index, subs) ==
  LET acc == SubsLoop(scr, region, name, status, arn, index, subs, 1,
                      [found |-> FALSE, rows |-> << >>, subIdx |-> << >>])
  IN IF ~acc.found
     THEN [rows |-> Append(acc.rows,
                           NotFoundRow(scr, region, name, status, arn)),
           subIdx |-> Append(acc.subIdx, 0)]
     ELSE [rows |-> acc.rows, subIdx |-> acc.subIdx]

\* subs.extend(page.get("Subscriptions", [])) over the first n pages
RECURSIVE SubsOfPages(_, _)
SubsOfPages(pages, n) ==
  IF n = 0 THEN << >>
  ELSE SubsOfPages(pages, n - 1) \o Get(pages[n], "Subscriptions", << >>)

\* sns_subscriptions (all.py): the ClientError of page failAt propagates
sns_subscriptions(pages, failAt) ==
  IF failAt = 0 THEN [raised |-> FALSE, subs |-> SubsOfPages(pages, Len(pages))]
  ELSE [raised |-> TRUE, subs |-> << >>]

\* list_subscriptions_by_topic (new.py): the ClientError is caught and the
\* subscriptions gathered so far are returned
list_subscriptions_by_topic(pages, failAt) ==
  IF failAt = 0 THEN [raised |-> FALSE, subs |-> SubsOfPages(pages, Len(pages))]
  ELSE [raised |-> FALSE, subs |-> SubsOfPages(pages, failAt - 1)]

ListSubscriptions(scr, pages, failAt) ==
  IF scr = "all" THEN sns_subscriptions(pages, failAt)
  ELSE list_subscriptions_by_topic(pages, failAt)

\* ------------------------------------------------------------------- state
VARIABLES
  script,        \* "all" (all.py) or "new" (new.py)
  PD_TOKEN,      \* TRUE when the environment variable is set
  teamPages,     \* the platform's GET /teams pages
  servicePages,  \* the platform's GET /services pages
  throttled,     \* TRUE: the platform answers 429 to every request
  url,           \* argument of a call of the key resolver on its own
  extracted,     \* what that call returned
  account,       \* aws_alarms.py: per region, the describe_alarms answer to
                 \* each continuation token (None: the call without token)
  next_token,    \* aws_alarms.py: next_token
  alarms,        \* aws_alarms.py: alarms
  all_rows,      \* aws_alarms.py: all_rows
  event,         \* lambda_handler: the event the function is invoked with
  post_ok,       \* TRUE when the webhook accepts a post (urlopen returns)
  response,      \* how the invocation ended: returned or raised, and whether
                 \* the post was made
  pc,            \* position of the run
  error,         \* exception that ended the run, or None
  resp,          \* status of the response being handled, NoResp if none
  lastReq,       \* path and offset of the latest request sent
  retries,       \* 429 answers received for the page being requested
  offset,        \* offset of the running fetch function
  teams,         \* fetch_all_pd_teams: teams
  teams_map,     \* fetch_all_pd_services_with_integrations: teams_map
  lookup,        \* the fetch function's lookup
  pd_lookup,     \* main: pd_lookup
  regionIdx,     \* main: position of `region` in the region list (0: none)
  pagesFetched,  \* describe_alarms pages requested in this region
  nextToken,     \* TRUE when the last alarm page carried a continuation token
  pending,       \* alarms of the current page not yet yielded
  alarm,         \* main: alarm
  alarm_count,   \* alarms yielded in this region
  targetIdx,     \* position of `arn` in the alarm's actions (0: no alarm open)
  subs,          \* main: subs, the latest subscription listing returned
  subsSrc,       \* <<region, alarm, target>> the listing in subs was made for
  rows,          \* main: rows
  rowSrc,        \* per row: <<region, alarm, target, subscription>> positions
  awsLog,        \* cloud API calls made so far
  alarmLog,      \* alarms yielded so far, with <<region, alarm>> positions
  failedRegions, \* regions whose describe_alarms raised ClientError
  written        \* TRUE once the report file is written

awsVars == << account, next_token, alarms, all_rows >>
lambdaVars == << event, post_ok, response >>

\* what no step of all.py / new.py changes: the inputs of the run and the
\* state of the programs that are not running
pdVars == << script, PD_TOKEN, teamPages, servicePages, throttled, url,
             extracted, awsVars, lambdaVars >>
fetchVars == << resp, lastReq, retries, offset, teams, teams_map, lookup,
                pd_lookup >>
scanVars == << regionIdx, pagesFetched, nextToken, pending, alarm, alarm_count,
               targetIdx, subs, subsSrc, rows, rowSrc, awsLog, alarmLog,
               failedRegions, written >>
vars == << pdVars, pc, error, fetchVars, scanVars >>

NoReq == [path |-> None, offset |-> 0]

\* aws_alarms.py is not running
AwsIdle ==
  /\ account = << >>
  /\ next_token = None
  /\ alarms = << >>
  /\ all_rows = << >>

\* a Python value: None
PyNone == [t |-> "none"]

NoResponse == [raised |-> FALSE, statusCode |-> 0, posted |-> "no"]

\* no Lambda function is invoked
LambdaIdle ==
  /\ event = PyNone
  /\ post_ok = TRUE
  /\ response = NoResponse

Init ==
  /\ script \in {"all", "new"}
  /\ PD_TOKEN \in BOOLEAN
  /\ \E w \in (IF script = "all" THEN PDWorlds ELSE PDWorldsNew) :
        teamPages = w[1] /\ servicePages = w[2]
  /\ throttled \in BOOLEAN
  /\ url = << >>
  /\ extracted = NoneKey
  /\ AwsIdle
  /\ LambdaIdle
  /\ pc = "load"
  /\ error = None
  /\ resp = NoResp
  /\ lastReq = NoReq
  /\ retries = 0
  /\ offset = 0
  /\ teams = EmptyDict
  /\ teams_map = EmptyDict
  /\ lookup = EmptyDict
  /\ pd_lookup = EmptyDict
  /\ regionIdx = 0
  /\ pagesFetched = 0
  /\ nextToken = FALSE
  /\ pending = << >>
  /\ alarm = EmptyDict
  /\ alarm_count = 0
  /\ targetIdx = 0
  /\ subs = << >>
  /\ subsSrc = << 0, 0, 0 >>
  /\ rows = << >>
  /\ rowSrc = << >>
  /\ awsLog = << >>
  /\ alarmLog = << >>
  /\ failedRegions = {}
  /\ written = FALSE

\* variant: the run starts its fetch whether or not the token is set
Startup_NoTokenCheck ==
  /\ pc = "load"
  /\ pc' = (IF script = "all" THEN "teams" ELSE "services")
  /\ error' = error
  /\ UNCHANGED << pdVars, fetchVars, scanVars >>

\* module level: if not PD_TOKEN: sys.exit(1); then main() starts the fetch
Startup ==
  /\ pc = "load"
  /\ IF ~PD_TOKEN THEN pc' = "exit" /\ error' = "SystemExit"
     ELSE pc' = (IF script = "all" THEN "teams" ELSE "services")
          /\ error' = error
  /\ UNCHANGED << pdVars, fetchVars, scanVars >>

\* statuses the platform may answer the next request with
Answers ==
  IF throttled THEN {RateLimited}
  ELSE {OK} \cup ErrorStatuses
       \cup (IF retries < MaxRetries THEN {RateLimited} ELSE {})

\* resp = session.get(f"{PD_API_BASE}/teams" or "/services", params=params)
SendRequest ==
  /\ pc \in {"teams", "services"}
  /\ resp = NoResp
  /\ \E status \in Answers : resp' = status
  /\ lastReq' = [path |-> pc, offset |-> offset]
  /\ UNCHANGED << pdVars, pc, error, retries, offset, teams, teams_map,
                  lookup, pd_lookup, scanVars >>

\* variant: the offset advances on a rate-limit answer
RateLimit_AdvancesOffset ==
  /\ resp = RateLimited
  /\ resp' = NoResp
  /\ retries' = (IF throttled THEN retries ELSE retries + 1)
  /\ offset' = offset + limit

\* if resp.status_code == 429: time.sleep(wait); continue
\* (the wait read from Retry-After only delays the next request; a platform
\* that throttles forever is not counted, so that its retries stay unbounded)
RateLimit ==
  /\ resp = RateLimited
  /\ resp' = NoResp
  /\ retries' = (IF throttled THEN retries ELSE retries + 1)
  /\ UNCHANGED offset

TeamsRateLimit ==
  /\ pc = "teams"
  /\ RateLimit
  /\ UNCHANGED << pdVars, pc, error, lastReq, teams, teams_map, lookup,
                  pd_lookup, scanVars >>

ServicesRateLimit ==
  /\ pc = "services"
  /\ RateLimit
  /\ UNCHANGED << pdVars, pc, error, lastReq, teams, teams_map, lookup,
                  pd_lookup, scanVars >>

\* variant: an error status ends the pagination with what was gathered
RaiseForStatus_Break ==
  /\ pc \in {"teams", "services"}
  /\ resp \in ErrorStatuses
  /\ resp' = NoResp
  /\ IF pc = "teams"
     THEN /\ teams_map' = teams
          /\ pc' = "services"
          /\ offset' = 0
          /\ UNCHANGED pd_lookup
     ELSE /\ pd_lookup' = lookup
          /\ pc' = "regions"
          /\ UNCHANGED << teams_map, offset >>
  /\ UNCHANGED << pdVars, error, lastReq, retries, teams, lookup, scanVars >>

\* resp.raise_for_status() on a 4xx / 5xx answer: HTTPError leaves main()
RaiseForStatus ==
  /\ pc \in {"teams", "services"}
  /\ resp \in ErrorStatuses
  /\ pc' = "raised"
  /\ error' = "HTTPError"
  /\ UNCHANGED << pdVars, fetchVars, scanVars >>

\* a successful teams page: add its teams, then stop or advance the offset;
\* a KeyError ends the run with the teams stored before it
TeamsPage ==
  /\ pc = "teams"
  /\ resp = OK
  /\ resp' = NoResp
  /\ retries' = 0
  /\ LET data == PageAt(teamPages, offset)
         ts == Get(data, "teams", << >>) IN
     IF TeamsKeyError(ts)
     THEN /\ teams' = TeamsLoop(teams, ts)
          /\ pc' = "raised"
          /\ error' = "KeyError"
          /\ UNCHANGED << offset, teams_map >>
     ELSE /\ teams' = TeamsLoop(teams, ts)
          /\ error' = error
          /\ IF ~Get(data, "more", FALSE)
             THEN /\ teams_map' = teams'
                  /\ pc' = "services"
                  /\ offset' = 0
             ELSE /\ offset' = offset + limit
                  /\ UNCHANGED << pc, teams_map >>
  /\ UNCHANGED << pdVars, lastReq, lookup, pd_lookup, scanVars >>

\* variant: the index is handed to main after the first page
ServicesPage_FirstPageOnly ==
  /\ pc = "services"
  /\ resp = OK
  /\ resp' = NoResp
  /\ retries' = 0
  /\ LET data == PageAt(servicePages, offset) IN
     /\ lookup' = ServicesLoop(script, lookup, Get(data, "services", << >>),
                               teams_map)
     /\ pd_lookup' = lookup'
     /\ pc' = "regions"
     /\ UNCHANGED offset
  /\ UNCHANGED << pdVars, error, lastReq, teams, teams_map, scanVars >>

\* variant: the fetch goes on until a page holds no service
ServicesPage_IgnoresMore ==
  /\ pc = "services"
  /\ resp = OK
  /\ resp' = NoResp
  /\ retries' = 0
  /\ LET data == PageAt(servicePages, offset) IN
     /\ lookup' = ServicesLoop(script, lookup, Get(data, "services", << >>),
                               teams_map)
     /\ IF Get(data, "services", << >>) = << >>
        THEN /\ pd_lookup' = lookup'
             /\ pc' = "regions"
             /\ UNCHANGED offset
        ELSE /\ offset' = offset + limit
             /\ UNCHANGED << pc, pd_lookup >>
  /\ UNCHANGED << pdVars, error, lastReq, teams, teams_map, scanVars >>

\* a successful services page: index its keys, then stop or advance
ServicesPage ==
  /\ pc = "services"
  /\ resp = OK
  /\ resp' = NoResp
  /\ retries' = 0
  /\ LET data == PageAt(servicePages, offset) IN
     /\ lookup' = ServicesLoop(script, lookup, Get(data, "services", << >>),
                               teams_map)
     /\ IF ~Get(data, "more", FALSE)
        THEN /\ pd_lookup' = lookup'
             /\ pc' = "regions"
             /\ UNCHANGED offset
        ELSE /\ offset' = offset + limit
             /\ UNCHANGED << pc, pd_lookup >>
  /\ UNCHANGED << pdVars, error, lastReq, teams, teams_map, scanVars >>

\* regions = all_aws_regions()
ListRegions ==
  /\ pc = "regions"
  /\ pc' = "scan"
  /\ regionIdx' = 1
  /\ awsLog' = Append(awsLog, [op |-> "DescribeRegions", region |-> None,
                               src |-> << 0, 0, 0 >>, ok |-> TRUE])
  /\ UNCHANGED << pdVars, error, fetchVars, pagesFetched, nextToken, pending,
                  alarm, alarm_count, targetIdx, subs, subsSrc, rows, rowSrc,
                  alarmLog, failedRegions, written >>

\* the describe_alarms pages the provider may answer with: any alarms within
\* the account's size
AlarmPages ==
  UNION { [1..n -> AlarmChoices] : n \in 0..(MaxAlarms - Len(alarmLog)) }

\* a page carries a continuation token only when it holds alarms and the
\* account has more
Tokens(page) ==
  IF page # << >> /\ Len(alarmLog) + Len(page) < MaxAlarms THEN BOOLEAN
  ELSE {FALSE}

DescribeAlarmsCall(ok) ==
  [op |-> "DescribeAlarms", region |-> Regions[regionIdx],
   src |-> << regionIdx, 0, 0 >>, ok |-> ok]

\* the paginator of cw_alarms / describe_alarms_paginated requests the next
\* page of the region; the call answers a page or raises ClientError
FetchAlarmPage ==
  /\ pc = "scan"
  /\ targetIdx = 0
  /\ pending = << >>
  /\ pagesFetched = 0 \/ nextToken
  /\ pagesFetched' = pagesFetched + 1
  /\ \/ /\ \E page \in AlarmPages :
              \E tok \in Tokens(page) : pending' = page /\ nextToken' = tok
        /\ awsLog' = Append(awsLog, DescribeAlarmsCall(TRUE))
        /\ UNCHANGED << pc, error, failedRegions >>
     \/ /\ failedRegions' = failedRegions \cup {Regions[regionIdx]}
        /\ awsLog' = Append(awsLog, DescribeAlarmsCall(FALSE))
        /\ nextToken' = FALSE
        /\ pending' = << >>
        /\ IF script = "all"
           THEN pc' = "raised" /\ error' = "ClientError"
           ELSE UNCHANGED << pc, error >>
  /\ UNCHANGED << pdVars, fetchVars, regionIdx, alarm, alarm_count, targetIdx,
                  subs, subsSrc, rows, rowSrc, alarmLog, written >>

\* the alarm generator is exhausted: for region in regions moves on
EndRegion ==
  /\ pc = "scan"
  /\ targetIdx = 0
  /\ pending = << >>
  /\ pagesFetched > 0 /\ ~nextToken
  /\ IF regionIdx = Len(Regions)
     THEN pc' = "write" /\ UNCHANGED << regionIdx, pagesFetched, alarm_count >>
     ELSE /\ regionIdx' = regionIdx + 1
          /\ pagesFetched' = 0
          /\ alarm_count' = 0
          /\ pc' = pc
  /\ UNCHANGED << pdVars, error, fetchVars, nextToken, pending, alarm,
                  targetIdx, subs, subsSrc, rows, rowSrc, awsLog, alarmLog,
                  failedRegions, written >>

\* for alarm in cw_alarms(region): the next alarm is yielded; an alarm
\* without actions gets its NO_ACTION row at once
ScanAlarm ==
  /\ pc = "scan"
  /\ targetIdx = 0
  /\ pending # << >>
  /\ alarm' = Head(pending)
  /\ pending' = Tail(pending)
  /\ alarm_count' = alarm_count + 1
  /\ alarmLog' = Append(alarmLog, [src |-> << regionIdx, alarm_count + 1 >>,
                                   alarm |-> Head(pending)])
  /\ IF ActionsOf(alarm') = << >>
     THEN /\ rows' = Append(rows, NoActionRow(script, Regions[regionIdx],
                                    Get(alarm', "AlarmName", NoName)))
          /\ rowSrc' = Append(rowSrc, << regionIdx, alarm_count + 1, 0, 0 >>)
          /\ targetIdx' = 0
     ELSE /\ targetIdx' = 1
          /\ UNCHANGED << rows, rowSrc >>
  /\ UNCHANGED << pdVars, pc, error, fetchVars, regionIdx, pagesFetched,
                  nextToken, subs, subsSrc, awsLog, failedRegions, written >>

\* for arn in actions: one target of the open alarm
ScanTarget ==
  /\ pc = "scan"
  /\ targetIdx > 0
  /\ LET arn == ActionsOf(alarm)[targetIdx]
         src == << regionIdx, alarm_count, targetIdx >>
         nextIdx == IF targetIdx = Len(ActionsOf(alarm)) THEN 0
                    ELSE targetIdx + 1
     IN
     IF ~IsTopicArn(arn)
     THEN /\ targetIdx' = nextIdx
          /\ UNCHANGED << pc, error, subs, subsSrc, rows, rowSrc, awsLog >>
     ELSE \E failAt \in 0..Len(TopicSubs(arn)) :
          LET pages == TopicSubs(arn)
              res == ListSubscriptions(script, pages, failAt)
              calls == IF failAt = 0 THEN Len(pages) ELSE failAt
              out == TargetRows(script, Regions[regionIdx],
                                Get(alarm, "AlarmName", NoName),
                                ActionStatus(alarm), arn, pd_lookup, res.subs)
          IN
          /\ awsLog' = awsLog \o [i \in 1..calls |->
                                    [op |-> "ListSubscriptionsByTopic",
                                     region |-> Regions[regionIdx],
                                     src |-> src, ok |-> i # failAt]]
          /\ IF res.raised
             THEN /\ pc' = "raised"
                  /\ error' = "ClientError"
                  /\ UNCHANGED << subs, subsSrc, rows, rowSrc, targetIdx >>
             ELSE /\ subs' = res.subs
                  /\ subsSrc' = src
                  /\ rows' = rows \o out.rows
                  /\ rowSrc' = rowSrc \o [i \in 1..Len(out.subIdx) |->
                                            src \o << out.subIdx[i] >>]
                  /\ targetIdx' = nextIdx
                  /\ UNCHANGED << pc, error >>
  /\ UNCHANGED << pdVars, fetchVars, regionIdx, pagesFetched, nextToken,
                  pending, alarm, alarm_count, alarmLog, failedRegions,
                  written >>

\* df = pd.DataFrame(rows); df.to_excel(OUTPUT_XLSX, index=False)
WriteReport ==
  /\ pc = "write"
  /\ written' = TRUE
  /\ pc' = "done"
  /\ UNCHANGED << pdVars, error, fetchVars, regionIdx, pagesFetched, nextToken,
                  pending, alarm, alarm_count, targetIdx, subs, subsSrc, rows,
                  rowSrc, awsLog, alarmLog, failedRegions >>

Next ==
  \/ Startup
  \/ SendRequest
  \/ TeamsRateLimit
  \/ ServicesRateLimit
  \/ RaiseForStatus
  \/ TeamsPage
  \/ ServicesPage
  \/ ListRegions
  \/ FetchAlarmPage
  \/ EndRegion
  \/ ScanAlarm
  \/ ScanTarget
  \/ WriteReport

Spec == Init /\ [][Next]_vars

\* the script is one sequential thread: it takes its next step when it has one
FairSpec == Spec /\ WF_vars(Next)

\* ------------------------------------------------- the index build alone
\* the run up to the return of the last fetch function
FetchNext ==
  \/ Startup
  \/ SendRequest
  \/ TeamsRateLimit
  \/ ServicesRateLimit
  \/ RaiseForStatus
  \/ TeamsPage
  \/ ServicesPage

FetchSpec == Init /\ [][FetchNext]_vars /\ WF_vars(FetchNext)

\* ----------------------------------------------- the key resolver alone
\* a call of the script's key resolver on an arbitrary endpoint string
InitKey ==
  /\ script \in {"all", "new"}
  /\ url \in Urls
  /\ extracted = NoneKey
  /\ AwsIdle
  /\ LambdaIdle
  /\ pc = "resolve"
  /\ PD_TOKEN = TRUE
  /\ teamPages = TP4
  /\ servicePages = SP1
  /\ throttled = FALSE
  /\ error = None
  /\ resp = NoResp
  /\ lastReq = NoReq
  /\ retries = 0
  /\ offset = 0
  /\ teams = EmptyDict
  /\ teams_map = EmptyDict
  /\ lookup = EmptyDict
  /\ pd_lookup = EmptyDict
  /\ regionIdx = 0
  /\ pagesFetched = 0
  /\ nextToken = FALSE
  /\ pending = << >>
  /\ alarm = EmptyDict
  /\ alarm_count = 0
  /\ targetIdx = 0
  /\ subs = << >>
  /\ subsSrc = << 0, 0, 0 >>
  /\ rows = << >>
  /\ rowSrc = << >>
  /\ awsLog = << >>
  /\ alarmLog = << >>
  /\ failedRegions = {}
  /\ written = FALSE

\* key = extract_key_from_pd(endpoint) / extract_integration_key_from_url(url)
ResolveKey ==
  /\ pc = "resolve"
  /\ extracted' = ExtractKey(script, url)
  /\ pc' = "resolved"
  /\ UNCHANGED << script, PD_TOKEN, teamPages, servicePages, throttled, url,
                  awsVars, lambdaVars, error, fetchVars, scanVars >>

NextKey == ResolveKey

KeySpec == InitKey /\ [][NextKey]_vars

\* ------------------------------------------------------- aws_alarms.py
\* what describe_alarms of one region answers to each continuation token
\* ("None": the call without NextToken)
NoMore == [MetricAlarms |-> << >>]
ChainEmpty == [None |-> NoMore, t1 |-> NoMore, t2 |-> NoMore]
ChainOne ==
  [None |-> [MetricAlarms |-> << [AlarmName |-> "cpu"],
                                 [AlarmName |-> "lat",
                                  AlarmActions |-> << ArnA >>,
                                  ActionsEnabled |-> TRUE] >>,
             NextToken |-> ""],
   t1 |-> NoMore, t2 |-> NoMore]
ChainTwo ==
  [None |-> [MetricAlarms |-> << [AlarmName |-> "disk",
                                  AlarmActions |-> << >>,
                                  ActionsEnabled |-> TRUE],
                                 [AlarmActions |-> << Asg, ArnB, ArnC >>] >>,
             NextToken |-> "t1"],
   t1 |-> [MetricAlarms |-> << [AlarmName |-> "scale",
                                AlarmActions |-> << Asg >>,
                                ActionsEnabled |-> TRUE] >>],
   t2 |-> NoMore]
ChainThree ==
  [None |-> [MetricAlarms |-> << [AlarmName |-> "mem",
                                  AlarmActions |-> << ArnC, Asg >>,
                                  ActionsEnabled |-> FALSE] >>,
             NextToken |-> "t1"],
   t1 |-> [MetricAlarms |-> << >>, NextToken |-> "t2"],
   t2 |-> [MetricAlarms |-> << [AlarmName |-> "lat",
                                AlarmActions |-> << ArnA >>,
                                ActionsEnabled |-> TRUE] >>]]
\* the provider hands out the tokens t1 and t2 again and again
ChainLoop ==
  [None |-> [MetricAlarms |-> << [AlarmName |-> "cpu"] >>, NextToken |-> "t1"],
   t1 |-> [MetricAlarms |-> << >>, NextToken |-> "t2"],
   t2 |-> [MetricAlarms |-> << >>, NextToken |-> "t1"]]
\* an answer without the MetricAlarms field
ChainBare == [None |-> EmptyDict, t1 |-> NoMore, t2 |-> NoMore]

Chains == { ChainEmpty, ChainOne, ChainTwo, ChainThree, ChainLoop, ChainBare }

\* ";".join(actions): the components of the ARNs, with the element ";"
\* between two ARNs
RECURSIVE Join(_)
Join(actions) ==
  IF Len(actions) = 1 THEN actions[1]
  ELSE actions[1] \o << ";" >> \o Join(Tail(actions))

\* variant: "NoActions" only when the alarm has no AlarmActions field
AwsRow_AbsentOnly(region, a) ==
  LET name == Get(a, "AlarmName", None)
      enabled == Get(a, "ActionsEnabled", FALSE)
      actions == Get(a, "AlarmActions", << >>)
  IN IF "AlarmActions" \notin DOMAIN a
     THEN << region, name, "NoActions", EmptyStr >>
     ELSE << region, name, IF enabled THEN "Enabled" ELSE "Disabled",
             IF actions = << >> THEN EmptyStr ELSE Join(actions) >>

\* all_rows.append([region, name, status, action_arns]) for one alarm;
\* alarm.get("ActionsEnabled") is None, hence false, when the flag is absent
AwsRow(region, a) ==
  LET name == Get(a, "AlarmName", None)
      enabled == Get(a, "ActionsEnabled", FALSE)
      actions == Get(a, "AlarmActions", << >>)
  IN IF actions = << >>
     THEN << region, name, "NoActions", EmptyStr >>
     ELSE << region, name, IF enabled THEN "Enabled" ELSE "Disabled",
             Join(actions) >>

\* for alarm in alarms: ...
AwsRows(region, as) == [i \in DOMAIN as |-> AwsRow(region, as[i])]

\* all.py and new.py are not running
ScriptsIdle ==
  /\ PD_TOKEN = TRUE
  /\ teamPages = TP4
  /\ servicePages = SP1
  /\ throttled = FALSE
  /\ url = << >>
  /\ extracted = NoneKey
  /\ error = None
  /\ resp = NoResp
  /\ lastReq = NoReq
  /\ retries = 0
  /\ offset = 0
  /\ teams = EmptyDict
  /\ teams_map = EmptyDict
  /\ lookup = EmptyDict
  /\ pd_lookup = EmptyDict
  /\ regionIdx = 0
  /\ pagesFetched = 0
  /\ nextToken = FALSE
  /\ pending = << >>
  /\ alarm = EmptyDict
  /\ alarm_count = 0
  /\ targetIdx = 0
  /\ subs = << >>
  /\ subsSrc = << 0, 0, 0 >>
  /\ rows = << >>
  /\ rowSrc = << >>
  /\ awsLog = << >>
  /\ alarmLog = << >>
  /\ failedRegions = {}
  /\ written = FALSE

InitAws ==
  /\ script = "aws_alarms"
  /\ account \in [DOMAIN Regions -> Chains]
  /\ next_token = None
  /\ alarms = << >>
  /\ all_rows = << >>
  /\ pc = "load"
  /\ ScriptsIdle
  /\ LambdaIdle

awsFrame == << script, PD_TOKEN, teamPages, servicePages, throttled, url,
               extracted, account, lambdaVars, fetchVars, pagesFetched,
               nextToken,
               pending, alarm, alarm_count, targetIdx, subs, subsSrc, rows,
               rowSrc, awsLog, alarmLog, failedRegions >>

\* regions = [...describe_regions()...]; for region in regions: alarms = [];
\* next_token = None
AwsListRegions ==
  /\ pc = "load"
  /\ regionIdx' = 1
  /\ pc' = "describe"
  /\ UNCHANGED << awsFrame, next_token, alarms, all_rows, error, written >>

\* one turn of `while True`: describe_alarms with or without NextToken, which
\* answers or raises ClientError; alarms.extend(resp["MetricAlarms"]);
\* next_token = resp.get("NextToken"); if not next_token: break
AwsDescribeAlarms ==
  /\ pc = "describe"
  /\ \/ LET asked == IF next_token # None /\ next_token # "" THEN next_token
                     ELSE None
            answer == account[regionIdx][asked]
        IN IF "MetricAlarms" \notin DOMAIN answer
           THEN /\ pc' = "raised"
                /\ error' = "KeyError"
                /\ UNCHANGED << alarms, next_token >>
           ELSE /\ alarms' = alarms \o answer.MetricAlarms
                /\ next_token' = Get(answer, "NextToken", None)
                /\ pc' = IF next_token' # None /\ next_token' # ""
                         THEN "describe" ELSE "process"
                /\ error' = error
     \/ /\ pc' = "raised"
        /\ error' = "ClientError"
        /\ UNCHANGED << alarms, next_token >>
  /\ UNCHANGED << awsFrame, regionIdx, all_rows, written >>

\* for alarm in alarms: ... all_rows.append(...); then the next region,
\* whose iteration starts with alarms = []; next_token = None; after the
\* last region both keep their values
AwsProcessAlarms ==
  /\ pc = "process"
  /\ all_rows' = all_rows \o AwsRows(Regions[regionIdx], alarms)
  /\ IF regionIdx = Len(Regions)
     THEN pc' = "write" /\ UNCHANGED << regionIdx, alarms, next_token >>
     ELSE /\ pc' = "describe"
          /\ regionIdx' = regionIdx + 1
          /\ alarms' = << >>
          /\ next_token' = None
  /\ UNCHANGED << awsFrame, error, written >>

\* with open("all_regions_alarm_report.csv", "w") ...: writer.writerow(row)
AwsWriteCsv ==
  /\ pc = "write"
  /\ written' = TRUE
  /\ pc' = "done"
  /\ UNCHANGED << awsFrame, regionIdx, next_token, alarms, all_rows, error >>

AlarmsNext ==
  \/ AwsListRegions
  \/ AwsDescribeAlarms
  \/ AwsProcessAlarms
  \/ AwsWriteCsv

AlarmsSpec == InitAws /\ [][AlarmsNext]_vars

\* the script is one sequential thread
AlarmsFairSpec == AlarmsSpec /\ WF_vars(AlarmsNext)

\* ------------------------------------------------ lambda2.py and lambda3.py
\* The values of an event, tagged with their Python type: isinstance(x, str)
\* is x.t = "str". A str carries its text (s), what json.loads makes of it
\* (loads; Undecodable when json.loads raises) and which of the substrings
\* the handlers test for occur in it (has).
PyInt == [t |-> "int"]
Undecodable == [t |-> "undecodable"]
PyDict(d) == [t |-> "dict", d |-> d]
PyList(l) == [t |-> "list", l |-> l]
PyStr(s, has) == [t |-> "str", s |-> s, loads |-> Undecodable, has |-> has]
JsonText(s, v, has) == [t |-> "str", s |-> s, loads |-> v, has |-> has]

\* the outcome of an expression: the exception or the value
Raise == [raised |-> TRUE, value |-> PyNone]
Return(v) == [raised |-> FALSE, value |-> v]

\* k in v, for a str k: TypeError when v is not iterable
InRaises(v) == v.t \in {"none", "int"}
In(k, v) ==
  CASE v.t = "dict" -> k \in DOMAIN v.d
    [] v.t = "str" -> k \in v.has
    [] v.t = "list" -> \E i \in DOMAIN v.l : v.l[i].t = "str" /\ v.l[i].s = k
    [] OTHER -> FALSE

\* v[k], for a str k: KeyError or TypeError unless v is a dict holding k
Item(v, k) ==
  IF v.t = "dict" /\ k \in DOMAIN v.d THEN Return(v.d[k]) ELSE Raise

\* v[0]: the first element of a list, the first character of a str (none of
\* the handlers' tests on one character depends on which it is), IndexError
\* on an empty one, KeyError on a dict (JSON keys are strs), else TypeError
First(v) ==
  CASE v.t = "list" /\ v.l # << >> -> Return(v.l[1])
    [] v.t = "str" /\ v.s # "" -> Return(PyStr("?", {}))
    [] OTHER -> Raise

\* v.get(k, dflt): AttributeError unless v is a dict
MethodGet(v, k, dflt) ==
  IF v.t = "dict" THEN Return(Get(v.d, k, dflt)) ELSE Raise

\* json.loads(v): TypeError unless v is a str, JSONDecodeError on bad text
Loads(v) ==
  IF v.t = "str" /\ v.loads.t # "undecodable" THEN Return(v.loads) ELSE Raise

\* "Records" in event and "Sns" in event["Records"][0]
IsSnsWrapper(ev) ==
  IF InRaises(ev) THEN "raise"
  ELSE IF ~In("Records", ev) THEN "no"
  ELSE LET recs == Item(ev, "Records")
       IN IF recs.raised THEN "raise"
          ELSE LET rec0 == First(recs.value)
               IN IF rec0.raised \/ InRaises(rec0.value) THEN "raise"
                  ELSE IF In("Sns", rec0.value) THEN "yes" ELSE "no"

\* event["Records"][0]["Sns"], once the wrapper test has passed
SnsOf(ev) == Item(First(Item(ev, "Records").value).value, "Sns")

\* if isinstance(event, str): event = json.loads(event)
DoubleDecode(ev) == IF ev.t = "str" THEN Loads(ev) ELSE Return(ev)

\* lambda3.unwrap_sns_event
unwrap_sns_event(ev) ==
  LET w == IsSnsWrapper(ev)
  IN IF w = "raise" THEN Raise
     ELSE IF w = "no" THEN DoubleDecode(ev)
     ELSE LET sns == SnsOf(ev)
          IN IF sns.raised THEN Raise
             ELSE LET message == MethodGet(sns.value, "Message", PyNone)
                  IN IF message.raised THEN Raise
                     ELSE IF message.value.t = "str"
                     THEN LET first == Loads(message.value)
                          IN IF first.raised THEN Raise
                             ELSE DoubleDecode(first.value)
                     ELSE DoubleDecode(message.value)

\* next((d.get("value") for d in dimensions
\*       if d.get("name") == "Cluster Name"), "N/A"), over a list
RECURSIVE ClusterScan(_, _)
ClusterScan(l, i) ==
  IF i > Len(l) THEN Return(PyStr("N/A", {}))
  ELSE IF l[i].t # "dict" THEN Raise
  ELSE LET n == Get(l[i].d, "name", PyNone)
       IN IF n.t = "str" /\ n.s = "Cluster Name"
          THEN Return(Get(l[i].d, "value", PyNone))
          ELSE ClusterScan(l, i + 1)

\* the same over any value: iterating a dict or a str yields strs, which
\* have no get; None and numbers are not iterable
Cluster(dimensions) ==
  CASE dimensions.t = "list" -> ClusterScan(dimensions.l, 1)
    [] dimensions.t = "dict" /\ DOMAIN dimensions.d = {} ->
         Return(PyStr("N/A", {}))
    [] dimensions.t = "str" /\ dimensions.s = "" -> Return(PyStr("N/A", {}))
    [] OTHER -> Raise

\* lambda3: alarm_name.split(":")[0] if ":" in alarm_name else "INFO" raises
SeverityRaises(alarm_name) ==
  \/ InRaises(alarm_name)
  \/ In(":", alarm_name) /\ alarm_name.t # "str"

\* lambda3.lambda_handler, lines 42-128: TRUE when a statement before the
\* post raises
PayloadRaises3(ev) ==
  LET u == unwrap_sns_event(ev)
  IN IF u.raised THEN TRUE
     ELSE LET details == MethodGet(u.value, "details", PyDict(EmptyDict))
          IN IF details.raised THEN TRUE
             ELSE LET trigger == MethodGet(details.value, "Trigger",
                                           PyDict(EmptyDict))
                      alarm_name == MethodGet(details.value, "AlarmName",
                                              PyStr("Unknown Alarm", {}))
                  IN IF trigger.raised THEN TRUE
                     ELSE LET dimensions ==
                                MethodGet(trigger.value, "Dimensions",
                                          PyList(<< >>))
                          IN \/ dimensions.raised
                             \/ Cluster(dimensions.value).raised
                             \/ SeverityRaises(alarm_name.value)

\* the handler that lets a failed post escape, as lambda2's does
lambda3_lambda_handler_Reraises(ev, ok) ==
  IF PayloadRaises3(ev)
  THEN [raised |-> FALSE, statusCode |-> 500, posted |-> "no"]
  ELSE IF ok THEN [raised |-> FALSE, statusCode |-> 200, posted |-> "ok"]
  ELSE [raised |-> TRUE, statusCode |-> 0, posted |-> "failed"]

\* lambda3.lambda_handler: every exception of the body, the post's included,
\* is caught and answered with 500
lambda3_lambda_handler(ev, ok) ==
  IF PayloadRaises3(ev)
  THEN [raised |-> FALSE, statusCode |-> 500, posted |-> "no"]
  ELSE IF ok THEN [raised |-> FALSE, statusCode |-> 200, posted |-> "ok"]
  ELSE [raised |-> FALSE, statusCode |-> 500, posted |-> "failed"]

\* lambda2.lambda_handler, lines 21-33: TRUE when a statement before the try
\* raises; trigger is bound and never used
PayloadRaises2(ev) ==
  LET w == IsSnsWrapper(ev)
      e == IF w = "no" THEN Return(ev)
           ELSE LET sns == SnsOf(ev)
                IN IF sns.raised THEN Raise
                   ELSE LET m == Item(sns.value, "Message")
                        IN IF m.raised THEN Raise ELSE Loads(m.value)
  IN IF w = "raise" \/ e.raised THEN TRUE
     ELSE LET details == MethodGet(e.value, "details", PyDict(EmptyDict))
          IN IF details.raised THEN TRUE
             ELSE LET trigger == MethodGet(details.value, "Trigger",
                                           PyDict(EmptyDict))
                      alarm_name == MethodGet(details.value, "AlarmName",
                                              PyStr("Unknown", {}))
                  IN trigger.raised \/ alarm_name.value.t # "str"

\* lambda2.lambda_handler: only the post is inside try, and its exception is
\* logged and raised again
lambda2_lambda_handler(ev, ok) ==
  IF PayloadRaises2(ev)
  THEN [raised |-> TRUE, statusCode |-> 0, posted |-> "no"]
  ELSE IF ok THEN [raised |-> FALSE, statusCode |-> 200, posted |-> "ok"]
  ELSE [raised |-> TRUE, statusCode |-> 0, posted |-> "failed"]

\* ---- payloads
AlarmCritical == PyStr("CRITICAL:db-cpu", {":"})
DimCluster ==
  PyDict([name |-> PyStr("Cluster Name", {}), value |-> PyStr("db-1", {})])
PGood ==
  PyDict([details |->
            PyDict([AlarmName |-> AlarmCritical,
                    NewStateValue |-> PyStr("ALARM", {}),
                    Trigger |->
                      PyDict([MetricName |-> PyStr("CPU", {}),
                              Dimensions |->
                                PyList(<< PyDict([name |-> PyStr("Node", {}),
                                                  value |-> PyStr("n-1", {})]),
                                          DimCluster >>)])]),
          client_url |-> PyStr("https://console.aws/alarm", {":"})])
PPlain == PyDict([details |-> PyDict([AlarmName |-> PyStr("queue-depth", {})])])
PEmpty == PyDict(EmptyDict)
PDetailsStr == PyDict([details |-> PyStr("down", {})])
PNameInt == PyDict([details |-> PyDict([AlarmName |-> PyInt])])
PNameNull == PyDict([details |-> PyDict([AlarmName |-> PyNone])])
PTriggerList ==
  PyDict([details |-> PyDict([AlarmName |-> AlarmCritical,
                              Trigger |-> PyList(<< >>)])])
PDimsOf(dimensions) ==
  PyDict([details |->
            PyDict([Trigger |-> PyDict([Dimensions |-> dimensions])])])

\* ---- JSON texts
GoodText ==
  JsonText("{\"details\": {\"AlarmName\": \"CRITICAL:db-cpu\", \"NewStateValue\": \"ALARM\", \"Trigger\": {\"MetricName\": \"CPU\", \"Dimensions\": [{\"name\": \"Node\", \"value\": \"n-1\"}, {\"name\": \"Cluster Name\", \"value\": \"db-1\"}]}}, \"client_url\": \"https://console.aws/alarm\"}",
           PGood, {":"})
PlainText ==
  JsonText("{\"details\": {\"AlarmName\": \"queue-depth\"}}", PPlain, {":"})
PlainTextTwice ==
  JsonText("\"{\\\"details\\\": {\\\"AlarmName\\\": \\\"queue-depth\\\"}}\"",
           PlainText, {":"})
BadText == PyStr("{details: ", {":"})

\* ---- SNS deliveries and other wrappers
Wrapper(message) ==
  PyDict([Records |->
            PyList(<< PyDict([EventSource |-> PyStr("aws:sns", {":"}),
                              Sns |-> PyDict([Message |-> message])]) >>)])
WrapperNoMessage ==
  PyDict([Records |->
            PyList(<< PyDict([Sns |-> PyDict([Subject |-> PyNone])]) >>)])
RecordsEmpty == PyDict([Records |-> PyList(<< >>)])
RecordsS3 ==
  PyDict([Records |->
            PyList(<< PyDict([EventSource |-> PyStr("aws:s3", {":"})]) >>)])
SnsIsStr == PyDict([Records |-> PyList(<< PyDict([Sns |-> PyStr("x", {})]) >>)])
WrapperText ==
  JsonText("{\"Records\": [{\"EventSource\": \"aws:sns\", \"Sns\": {\"Message\": \"{}\"}}]}",
           Wrapper(JsonText("{}", PEmpty, {})), {"Records", "Sns", ":"})

Events ==
  { PGood, PPlain, PEmpty, PDetailsStr, PNameInt, PNameNull, PTriggerList,
    PDimsOf(PyList(<< PyStr("Cluster Name", {}) >>)), PDimsOf(PyNone),
    PDimsOf(PyList(<< DimCluster, PyStr("x", {}) >>)),
    Wrapper(GoodText), Wrapper(PlainText), Wrapper(PlainTextTwice),
    Wrapper(PGood), Wrapper(BadText), Wrapper(JsonText("7", PyInt, {})),
    Wrapper(JsonText("{\"details\": {\"AlarmName\": 7}}", PNameInt, {":"})), Wrapper(PyNone), WrapperNoMessage,
    RecordsEmpty, PyDict([Records |-> PyNone]),
    PyDict([Records |-> PyList(<< PyNone >>)]), RecordsS3, SnsIsStr,
    PlainText, WrapperText, PyNone, PyList(<< >>), PyInt }

\* one invocation of one of the two functions
InitLambda ==
  /\ script \in {"lambda3", "lambda2"}
  /\ event \in Events
  /\ post_ok \in BOOLEAN
  /\ response = NoResponse
  /\ pc = "invoke"
  /\ ScriptsIdle
  /\ AwsIdle

lambdaFrame == << script, PD_TOKEN, teamPages, servicePages, throttled, url,
                  extracted, awsVars, event, post_ok, error, fetchVars,
                  scanVars >>

Lambda3Invoke ==
  /\ pc = "invoke"
  /\ script = "lambda3"
  /\ response' = lambda3_lambda_handler(event, post_ok)
  /\ pc' = IF response'.raised THEN "raised" ELSE "returned"
  /\ UNCHANGED lambdaFrame

Lambda2Invoke ==
  /\ pc = "invoke"
  /\ script = "lambda2"
  /\ response' = lambda2_lambda_handler(event, post_ok)
  /\ pc' = IF response'.raised THEN "raised" ELSE "returned"
  /\ UNCHANGED lambdaFrame

LambdaNext ==
  \/ Lambda3Invoke
  \/ Lambda2Invoke

LambdaSpec == InitLambda /\ [][LambdaNext]_vars

\* the status the process ends with: sys.exit(1), an uncaught exception, or
\* a normal end
ExitStatus ==
  IF pc = "exit" /\ error = "SystemExit" THEN 1
  ELSE IF pc = "raised" THEN 1
  ELSE 0

\* ============================================================ properties
Max(S) == CHOOSE x \in S : \A y \in S : y <= x

\* the pages a fetch reads: up to the first one whose `more` is false or absent
PagesRead(pages) ==
  LET last == { i \in DOMAIN pages : ~Get(pages[i], "more", FALSE) } IN
  IF last = {} THEN Len(pages) ELSE CHOOSE i \in last : \A j \in last : i <= j

RECURSIVE Flatten(_, _, _)
Flatten(pages, field, n) ==
  IF n = 0 THEN << >>
  ELSE Flatten(pages, field, n - 1) \o Get(pages[n], field, << >>)

AllTeamObjs == Flatten(teamPages, "teams", PagesRead(teamPages))
AllServiceObjs == Flatten(servicePages, "services", PagesRead(servicePages))

\* the team mapping of a fetch that reads every page once, in order
ExpectedTeams ==
  LET objs == AllTeamObjs IN
  [id \in { objs[i].id : i \in DOMAIN objs } |->
     objs[Max({ i \in DOMAIN objs : objs[i].id = id })].name]

\* the non-empty integration keys of a service object
KeysOf(s) ==
  LET integrations == Get(s, "integrations", << >>) IN
  { Get(integrations[i], "integration_key", NoneKey) :
      i \in DOMAIN integrations } \ { NoneKey, << >> }

Carriers(key) ==
  { i \in DOMAIN AllServiceObjs : key \in KeysOf(AllServiceObjs[i]) }

\* the entry the specification assigns to a key of service s, given the
\* team mapping tm
SpecEntry(s, tm) ==
  LET ts == Get(s, "teams", << >>)
      first == Get(ts[1], "id", None)
  IN IF script = "new" THEN << Get(s, "id", None), Get(s, "name", None) >>
     ELSE [service_id |-> Get(s, "id", None),
           service_name |-> Get(s, "name", None),
           team_id |-> IF ts = << >> THEN UNKNOWN ELSE first,
           team_name |-> IF ts = << >> THEN UNKNOWN
                         ELSE IF first \in DOMAIN tm THEN tm[first]
                         ELSE UNKNOWN]

\* the index of a build that reads every page once, in order
ExpectedIndex ==
  LET objs == AllServiceObjs
      tm == IF script = "all" THEN ExpectedTeams ELSE EmptyDict
  IN
  [key \in UNION { KeysOf(objs[i]) : i \in DOMAIN objs } |->
     SpecEntry(objs[Max({ i \in DOMAIN objs : key \in KeysOf(objs[i]) })], tm)]

\* fetch_..._services has returned: main holds the index
Built == pc \in {"regions", "scan", "write", "done"}
         \/ (pc = "raised" /\ error = "ClientError")

TeamsFetched == script = "all"
                /\ (pc = "services" \/ Built
                    \/ (pc = "raised" /\ lastReq.path = "services"))

\* rows appended for one alarm / one target of an alarm
RowsOfAlarm(src) ==
  { j \in DOMAIN rowSrc : SubSeq(rowSrc[j], 1, 2) = SubSeq(src, 1, 2) }
RowsOfTarget(src) ==
  { j \in DOMAIN rowSrc : SubSeq(rowSrc[j], 1, 3) = SubSeq(src, 1, 3) }

\* positions in ss of the subscriptions whose endpoint contains the marker
\* and yields a key
MatchingSubs(ss) ==
  { i \in DOMAIN ss :
      /\ "Endpoint" \in DOMAIN ss[i]
      /\ Contains(ss[i].Endpoint, PD)
      /\ Truthy(ExtractKey(script, ss[i].Endpoint)) }

SubCalls(src) ==
  { i \in DOMAIN awsLog : /\ awsLog[i].op = "ListSubscriptionsByTopic"
                          /\ SubSeq(awsLog[i].src, 1, Len(src)) = src }

\* C1: once the report is written, every alarm the alarm source returned has
\* at least one row, whatever its action list (empty, topics only, non-topic
\* targets only, or a mix).
C1_EveryAlarmHasRow ==
  written => \A i \in DOMAIN alarmLog : RowsOfAlarm(alarmLog[i].src) # {}

\* C2: every notification-topic target whose subscriptions were listed has at
\* least one row, and one row per matching subscription (carrying that
\* subscription's key), so at least as many rows as matching subscriptions;
\* in a written report every topic target of every alarm has a row.
C2_TopicTargetRows ==
  /\ Len(rows) = Len(rowSrc)
  /\ subsSrc # << 0, 0, 0 >> =>
       LET mine == RowsOfTarget(subsSrc)
           matching == MatchingSubs(subs)
       IN
       /\ Cardinality(mine) >= 1
       /\ Cardinality(mine) >= Cardinality(matching)
       /\ \A i \in matching :
            \E j \in mine :
               /\ rowSrc[j][4] = i
               /\ rows[j].IntegrationKey = ExtractKey(script, subs[i].Endpoint)
               /\ \A k \in mine : rowSrc[k][4] = i => k = j
  /\ written =>
       \A i \in DOMAIN alarmLog :
          \A t \in DOMAIN ActionsOf(alarmLog[i].alarm) :
             IsTopicArn(ActionsOf(alarmLog[i].alarm)[t])
               => RowsOfTarget(alarmLog[i].src \o << t >>) # {}

\* a topic target with two matching subscriptions got its two rows
C2_Witness ==
  /\ subsSrc # << 0, 0, 0 >>
  /\ Cardinality(MatchingSubs(subs)) = 2
  /\ Cardinality(RowsOfTarget(subsSrc)) = 2

\* C3: an alarm whose action list is empty or absent has exactly one row, with
\* status "NO_ACTION" and empty topic, key, service and team fields, and no
\* subscription listing is made for it.
C3_NoActionRow ==
  \A i \in DOMAIN alarmLog :
     LET a == alarmLog[i].alarm
         mine == RowsOfAlarm(alarmLog[i].src)
     IN ("AlarmActions" \notin DOMAIN a \/ a.AlarmActions = << >>) =>
          /\ Cardinality(mine) = 1
          /\ \A j \in mine :
               /\ rows[j].AlarmActionStatus = "NO_ACTION"
               /\ rows[j].SNSTopicArn = EmptyStr
               /\ rows[j].SNSTopicName = ""
               /\ rows[j].IntegrationKey = << >>
               /\ rows[j].PagerDutyServiceName = ""
               /\ rows[j].PagerDutyServiceID = ""
               /\ script = "all" => /\ rows[j].PagerDutyTeamName = ""
                                    /\ rows[j].PagerDutyTeamID = ""
          /\ SubCalls(alarmLog[i].src) = {}

\* a finished run that met an enabled alarm with an empty action list, and
\* listed subscriptions for another alarm
C3_Witness ==
  /\ pc = "done"
  /\ \E i \in DOMAIN alarmLog :
        /\ "AlarmActions" \in DOMAIN alarmLog[i].alarm
        /\ alarmLog[i].alarm.AlarmActions = << >>
        /\ alarmLog[i].alarm.ActionsEnabled
  /\ \E i \in DOMAIN awsLog : awsLog[i].op = "ListSubscriptionsByTopic"

\* C4: a 429 answer is followed by a request for the same page: handling it
\* changes neither the offset nor what was gathered, every request carries
\* the current offset, and the team mapping and key index finally built are
\* those of a build that reads each page exactly once, however many 429
\* answers occurred.
C4_RetrySamePage ==
  /\ [](/\ (resp # NoResp /\ pc \in {"teams", "services"})
             => lastReq = [path |-> pc, offset |-> offset]
        /\ TeamsFetched => teams_map = ExpectedTeams
        /\ Built => pd_lookup = ExpectedIndex)
  /\ [][resp = RateLimited =>
          /\ offset' = offset
          /\ teams' = teams
          /\ lookup' = lookup
          /\ lastReq' = lastReq]_vars

\* the second services page is about to be requested again after a 429
C4_Witness ==
  /\ pc = "services"
  /\ resp = NoResp
  /\ retries > 0
  /\ offset = limit
  /\ lastReq = [path |-> "services", offset |-> limit]
  /\ lookup # EmptyDict

\* C5: the retry on 429 is bounded, so an index build against a platform that
\* answers 429 to every request still ends.
C5_RetryBounded ==
  throttled => <>(pc \notin {"load", "teams", "services"})

\* C6: an unsuccessful status other than 429 on a teams or services page ends
\* the run with an error: the step that handles it raises, and afterwards no
\* team mapping or index has been handed over by the failing fetch, no cloud
\* call has been made and no report is written.
C6_FatalHttpError ==
  /\ [](error = "HTTPError" =>
          /\ pc = "raised"
          /\ pd_lookup = EmptyDict
          /\ lastReq.path = "teams" => teams_map = EmptyDict
          /\ awsLog = << >>
          /\ rows = << >>
          /\ ~written)
  /\ [][(resp \in ErrorStatuses) =>
          /\ pc' = "raised"
          /\ error' = "HTTPError"]_vars

\* the second services page was answered with an error status after the
\* first one had been indexed
C6_Witness ==
  /\ error = "HTTPError"
  /\ lastReq = [path |-> "services", offset |-> limit]
  /\ lookup # EmptyDict

\* C7: when the alarm listing of a region fails, on whatever page, the run is
\* not aborted and the rows hold nothing of the failed region.
C7_FailedRegionSkipped ==
  failedRegions # {} =>
    /\ pc # "raised"
    /\ \A j \in DOMAIN rows : rows[j].Region \notin failedRegions

\* C8: when the subscription listing of a topic fails, on whatever page, the
\* run is not aborted, the listing returns no subscription and the target
\* gets the single row with an empty key.
C8_FailedListingEmpty ==
  \A i \in DOMAIN awsLog :
     (awsLog[i].op = "ListSubscriptionsByTopic" /\ ~awsLog[i].ok) =>
       /\ pc # "raised"
       /\ subsSrc = awsLog[i].src => subs = << >>
       /\ Cardinality(RowsOfTarget(awsLog[i].src)) = 1
       /\ \A j \in RowsOfTarget(awsLog[i].src) : rows[j].IntegrationKey = << >>

\* C9: no cloud call is made and no row is appended before the index is
\* handed to main; from then on the index is the complete one, never changes,
\* and every row with a key carries what that index holds for the key.
C9_IndexFrozen ==
  /\ [](/\ ~Built => (awsLog = << >> /\ rows = << >> /\ pd_lookup = EmptyDict)
        /\ Built => (pd_lookup = ExpectedIndex /\ resp = NoResp)
        /\ LET index == ExpectedIndex IN
           \A j \in DOMAIN rows :
             rows[j].IntegrationKey # << >> =>
               LET info == PdInfo(script, index, rows[j].IntegrationKey)
               IN /\ rows[j].PagerDutyServiceID = info.service_id
                  /\ rows[j].PagerDutyServiceName = info.service_name)
  /\ [][Built =>
          /\ Built'
          /\ pd_lookup' = pd_lookup]_vars

\* a row resolved through a two-page index, by a key of the second page
C9_Witness ==
  /\ pc = "scan"
  /\ servicePages = SP2
  /\ \E j \in DOMAIN rows : /\ rows[j].IntegrationKey = K1
                            /\ rows[j].PagerDutyServiceID = "S3"

\* C10 as stated: in the index all.py builds, every non-empty key of every
\* service maps to that service with its first team (or "UNKNOWN").
C10_EveryServiceEntry ==
  (Built /\ script = "all") =>
    \A i \in DOMAIN AllServiceObjs :
       \A key \in KeysOf(AllServiceObjs[i]) :
          /\ key \in DOMAIN pd_lookup
          /\ pd_lookup[key] = SpecEntry(AllServiceObjs[i], teams_map)

\* C10 amended: every non-empty key of every service is in the index, and it
\* maps to that service with its first team (or "UNKNOWN") unless a later
\* service carries the same key.
C10_LastServiceEntry ==
  (Built /\ script = "all") =>
    \A i \in DOMAIN AllServiceObjs :
       \A key \in KeysOf(AllServiceObjs[i]) :
          /\ key \in DOMAIN pd_lookup
          /\ (\A j \in Carriers(key) : j <= i)
               => pd_lookup[key] = SpecEntry(AllServiceObjs[i], teams_map)

\* an index holding a service with two teams, one with none, and one whose
\* team is not in the team mapping
C10_Witness ==
  /\ Built /\ script = "all" /\ servicePages = SP2
  /\ pd_lookup[K3] = [service_id |-> "S1", service_name |-> "api",
                      team_id |-> "T1", team_name |-> "Platform"]
  /\ pd_lookup[K2].team_id = UNKNOWN /\ pd_lookup[K2].team_name = UNKNOWN
  /\ pd_lookup[K1].team_id = "T3" /\ pd_lookup[K1].team_name = UNKNOWN


\* the alarm and the target a row source or a listing source points at
AlarmAt(src) ==
  alarmLog[CHOOSE i \in DOMAIN alarmLog :
             alarmLog[i].src = SubSeq(src, 1, 2)].alarm
TargetArn(src) == AlarmAt(src).AlarmActions[src[3]]

\* positions in ss of the matching subscriptions whose key the index lacks
UnindexedSubs(ss) ==
  { i \in MatchingSubs(ss) :
      ExtractKey(script, ss[i].Endpoint) \notin DOMAIN pd_lookup }

\* C11: a subscription whose extracted key is absent from the index still
\* counts as found: it has exactly one row, carrying the topic, the key,
\* service id and name "NOT_FOUND" and (all.py, whose rows have team columns)
\* team id and name "UNKNOWN"; the target gets no empty-key row.
C11_UnindexedKeyRow ==
  subsSrc # << 0, 0, 0 >> =>
    \A i \in UnindexedSubs(subs) :
       LET mine == RowsOfTarget(subsSrc) IN
       /\ \E j \in mine :
             /\ rowSrc[j][4] = i
             /\ \A k \in mine : rowSrc[k][4] = i => k = j
             /\ rows[j].SNSTopicArn = TargetArn(subsSrc)
             /\ rows[j].SNSTopicName
                  = TargetArn(subsSrc)[Len(TargetArn(subsSrc))]
             /\ rows[j].IntegrationKey = ExtractKey(script, subs[i].Endpoint)
             /\ rows[j].PagerDutyServiceID = "NOT_FOUND"
             /\ rows[j].PagerDutyServiceName = "NOT_FOUND"
             /\ script = "all" => /\ rows[j].PagerDutyTeamID = "UNKNOWN"
                                  /\ rows[j].PagerDutyTeamName = "UNKNOWN"
       /\ \A k \in mine : /\ rowSrc[k][4] # 0
                           /\ rows[k].IntegrationKey # << >>

\* a target whose only matching subscription carries a key outside the index
\* got that single row
C11_Witness ==
  /\ subsSrc # << 0, 0, 0 >>
  /\ UnindexedSubs(subs) # {}
  /\ UnindexedSubs(subs) = MatchingSubs(subs)
  /\ Cardinality(RowsOfTarget(subsSrc)) = 1


\* the status the alarm's enabled flag stands for
StatusOf(a) ==
  IF "ActionsEnabled" \in DOMAIN a /\ a.ActionsEnabled = TRUE THEN "ENABLED"
  ELSE "DISABLED"

\* C12: a row with a key comes only from a subscription whose endpoint holds
\* the marker and yields a key; when no subscription of the listing does
\* (marker missing, marker without a parseable key, or no subscription at
\* all), the target has exactly one row, with empty key, service and team
\* fields, carrying the topic's ARN and name and the alarm's status.
C12_NotFoundRow ==
  subsSrc # << 0, 0, 0 >> =>
    LET mine == RowsOfTarget(subsSrc)
        matching == MatchingSubs(subs)
    IN
    /\ \A j \in mine : rowSrc[j][4] # 0 => rowSrc[j][4] \in matching
    /\ matching = {} =>
         /\ Cardinality(mine) = 1
         /\ \A j \in mine :
              /\ rows[j].IntegrationKey = << >>
              /\ rows[j].PagerDutyServiceID = ""
              /\ rows[j].PagerDutyServiceName = ""
              /\ script = "all" => /\ rows[j].PagerDutyTeamID = ""
                                   /\ rows[j].PagerDutyTeamName = ""
              /\ rows[j].SNSTopicArn = TargetArn(subsSrc)
              /\ rows[j].SNSTopicName
                   = TargetArn(subsSrc)[Len(TargetArn(subsSrc))]
              /\ rows[j].AlarmActionStatus = StatusOf(AlarmAt(subsSrc))

\* a listing with a marker-without-key endpoint, a key-without-marker
\* endpoint and a subscription without endpoint gave the single empty row
C12_Witness ==
  /\ subsSrc # << 0, 0, 0 >>
  /\ \E i \in DOMAIN subs : subs[i] = [Endpoint |-> EpNoKey]
  /\ \E i \in DOMAIN subs : subs[i] = [Endpoint |-> EpOther]
  /\ \E i \in DOMAIN subs : "Endpoint" \notin DOMAIN subs[i]
  /\ MatchingSubs(subs) = {}
  /\ Cardinality(RowsOfTarget(subsSrc)) = 1


\* "/integration/" stands at position i of s and a non-slash character
\* follows it
KeyRunAt(s, i) ==
  /\ i >= 1
  /\ i + 13 <= Len(s)
  /\ \A k \in 1..13 : s[i + k - 1] = INTEG[k]
  /\ s[i + 13] # "/"

\* C13: for every endpoint string the key resolver returns the maximal run
\* of one or more non-slash characters that immediately follows the first
\* occurrence of "/integration/" (case-sensitive) having such a run, the run
\* ending at the next "/" or at the end of the string; it returns nothing
\* when there is no such occurrence.
C13_ExtractedRun ==
  pc = "resolved" =>
    IF \E i \in 1..Len(url) : KeyRunAt(url, i)
    THEN LET i == CHOOSE i \in 1..Len(url) :
                    KeyRunAt(url, i) /\ \A j \in 1..(i - 1) : ~KeyRunAt(url, j)
             n == Len(extracted)
         IN /\ extracted # NoneKey
            /\ n >= 1
            /\ i + 12 + n <= Len(url)
            /\ \A k \in 1..n : extracted[k] = url[i + 12 + k] /\ extracted[k] # "/"
            /\ (i + 13 + n > Len(url) \/ url[i + 13 + n] = "/")
    ELSE extracted = NoneKey

\* the first "/integration/" is followed by a slash, the second by the key
C13_Witness ==
  /\ pc = "resolved"
  /\ url = INTEG \o INTEG \o K1
  /\ extracted = K1


\* C14: when the directory credential is missing the run does nothing but
\* exit with a non-zero status: no platform request, no region, alarm or
\* subscription request, no row and no report.
C14_NoTokenExits ==
  ~PD_TOKEN =>
    /\ pc \in {"load", "exit"}
    /\ pc = "exit" => ExitStatus # 0 /\ error = "SystemExit"
    /\ lastReq = NoReq
    /\ resp = NoResp
    /\ awsLog = << >>
    /\ alarmLog = << >>
    /\ rows = << >>
    /\ ~written

\* a run without the credential has exited
C14_Witness ==
  ~PD_TOKEN /\ pc = "exit" /\ ExitStatus = 1 /\ lastReq = NoReq


\* C15: malformed platform data never aborts the index build: a team,
\* service or integration object lacking a field raises nothing.
C15_MalformedNeverRaises ==
  ~(pc = "raised" /\ error = "KeyError")


\* service id and name of an index entry
EntryService(e) ==
  IF script = "all" THEN << e.service_id, e.service_name >> ELSE << e[1], e[2] >>

\* C16: the index holds exactly one entry per distinct key, and the entry of
\* a key carried by more than one service (on one page or on different pages)
\* is the one of the last such service in page order, then in-page order.
C16_LastWriteWins ==
  Built =>
    LET objs == AllServiceObjs
        carriers(key) == { i \in DOMAIN objs : key \in KeysOf(objs[i]) }
    IN
    /\ DOMAIN pd_lookup = UNION { KeysOf(objs[i]) : i \in DOMAIN objs }
    /\ \A key \in DOMAIN pd_lookup :
         Cardinality(carriers(key)) > 1 =>
           LET last == objs[Max(carriers(key))] IN
           EntryService(pd_lookup[key])
             = << Get(last, "id", None), Get(last, "name", None) >>

\* K1 is carried by S1 on the first page and S3 on the second: S3 holds it
C16_Witness ==
  /\ Built
  /\ servicePages = SP2
  /\ Carriers(K1) = {1, 3}
  /\ EntryService(pd_lookup[K1]) = << "S3", "web" >>


\* the target is not a notification topic
NonTopic(arn) ==
  ~(Len(arn) >= 4 /\ arn[1] = "arn" /\ arn[2] = "aws" /\ arn[3] = "sns")

\* C17: in an alarm with actions, a target that is not a notification topic
\* has no row and no subscription listing, and the step that passes over it
\* changes neither the rows, nor the calls made, nor the course of the run.
C17_NonTopicSkipped ==
  /\ [](\A i \in DOMAIN alarmLog :
          LET actions == Get(alarmLog[i].alarm, "AlarmActions", << >>) IN
          \A t \in DOMAIN actions :
             NonTopic(actions[t]) =>
               /\ RowsOfTarget(alarmLog[i].src \o << t >>) = {}
               /\ SubCalls(alarmLog[i].src \o << t >>) = {})
  /\ [][(pc = "scan" /\ targetIdx > 0 /\ NonTopic(alarm.AlarmActions[targetIdx]))
          => /\ rows' = rows
             /\ rowSrc' = rowSrc
             /\ awsLog' = awsLog
             /\ subs' = subs
             /\ pc' = pc
             /\ error' = error]_vars

\* the alarm with a non-topic target followed by two topics: the first
\* target left nothing, the other two have their rows
C17_Witness ==
  \E i \in DOMAIN alarmLog :
     /\ alarmLog[i].alarm = [AlarmActions |-> << Asg, ArnB, ArnC >>]
     /\ RowsOfTarget(alarmLog[i].src \o << 1 >>) = {}
     /\ RowsOfTarget(alarmLog[i].src \o << 2 >>) # {}
     /\ RowsOfTarget(alarmLog[i].src \o << 3 >>) # {}


\* C18: every row of an alarm with a non-empty action list carries "ENABLED"
\* when the alarm's enabled flag is true and "DISABLED" otherwise (flag false
\* or absent); all rows of one alarm carry the same status.
C18_RowStatus ==
  \A i \in DOMAIN alarmLog :
     LET a == alarmLog[i].alarm
         mine == RowsOfAlarm(alarmLog[i].src)
     IN ("AlarmActions" \in DOMAIN a /\ a.AlarmActions # << >>) =>
          /\ \A j \in mine : rows[j].AlarmActionStatus = StatusOf(a)
          /\ \A j, k \in mine :
               rows[j].AlarmActionStatus = rows[k].AlarmActionStatus

\* an alarm without the flag has several rows, all "DISABLED", and an
\* enabled alarm has its rows "ENABLED"
C18_Witness ==
  \E i, k \in DOMAIN alarmLog :
     /\ "ActionsEnabled" \notin DOMAIN alarmLog[i].alarm
     /\ Cardinality(RowsOfAlarm(alarmLog[i].src)) >= 2
     /\ \A j \in RowsOfAlarm(alarmLog[i].src) :
          rows[j].AlarmActionStatus = "DISABLED"
     /\ alarmLog[k].alarm = [AlarmName |-> "lat", AlarmActions |-> << ArnA >>,
                             ActionsEnabled |-> TRUE]
     /\ RowsOfAlarm(alarmLog[k].src) # {}
     /\ \A j \in RowsOfAlarm(alarmLog[k].src) :
          rows[j].AlarmActionStatus = "ENABLED"


\* lexicographic order on row sources <<region, alarm, target, subscription>>
SrcBefore(a, b) ==
  \E n \in 1..4 : a[n] < b[n] /\ \A m \in 1..(n - 1) : a[m] = b[m]

\* C19: rows are appended in region order, then alarm order, then target
\* order, then subscription order (each row's source precedes the next
\* row's), each row carrying the region, the alarm and the target it comes
\* from; the rows of one (alarm, target) pair are contiguous (the row after
\* any but the last of them belongs to the pair); a row once appended is
\* never modified or removed.
C19_RowOrder ==
  /\ [](/\ Len(rows) = Len(rowSrc)
        /\ \A j \in 1..(Len(rowSrc) - 1) : SrcBefore(rowSrc[j], rowSrc[j + 1])
        /\ \A j \in DOMAIN rowSrc :
             /\ rows[j].Region = Regions[rowSrc[j][1]]
             /\ rows[j].AlarmName
                  = Get(AlarmAt(rowSrc[j]), "AlarmName", NoName)
             /\ rowSrc[j][3] > 0 => rows[j].SNSTopicArn = TargetArn(rowSrc[j])
        /\ \A j, k \in DOMAIN rowSrc :
             (j < k /\ SubSeq(rowSrc[j], 1, 3) = SubSeq(rowSrc[k], 1, 3)) =>
               SubSeq(rowSrc[j + 1], 1, 3) = SubSeq(rowSrc[j], 1, 3))
  /\ [][/\ Len(rows') >= Len(rows)
         /\ SubSeq(rows', 1, Len(rows)) = rows]_vars

\* a written report with rows of both regions and a target with two rows
C19_Witness ==
  /\ written
  /\ Len(rows) >= 3
  /\ rowSrc[1][1] = 1
  /\ rowSrc[Len(rowSrc)][1] = 2
  /\ \E j \in 1..(Len(rowSrc) - 1) : rowSrc[j][4] = 1 /\ rowSrc[j + 1][4] = 3


\* the team mapping and the index that the first n pages give when each is
\* processed once, in order
TeamsOfPages(n) ==
  LET objs == Flatten(teamPages, "teams", n) IN
  [id \in { objs[i].id : i \in DOMAIN objs } |->
     objs[Max({ i \in DOMAIN objs : objs[i].id = id })].name]
IndexOfPages(n) ==
  LET objs == Flatten(servicePages, "services", n) IN
  [key \in UNION { KeysOf(objs[i]) : i \in DOMAIN objs } |->
     SpecEntry(objs[Max({ i \in DOMAIN objs : key \in KeysOf(objs[i]) })],
               teams_map)]

\* offset of the first page of `pages` whose `more` is false or absent
LastOffset(pages) == (PagesRead(pages) - 1) * limit

\* C20: each fetch requests the offsets 0, limit, 2*limit, ... in increasing
\* order (the same offset again only after a rate-limit answer), has
\* processed exactly the pages before its current offset, once each, never
\* requests past the first page whose `more` is false or absent, and returns
\* right after that page with the union of the pages read; when the platform
\* does not throttle forever the fetch ends (it returns, or an error answer
\* or malformed team aborts the run).
C20_OffsetPagination ==
  /\ [](/\ pc = "teams" => /\ offset % limit = 0
                            /\ offset <= LastOffset(teamPages)
                            /\ teams = TeamsOfPages(offset \div limit)
        /\ pc = "services" => /\ offset % limit = 0
                               /\ offset <= LastOffset(servicePages)
                               /\ lookup = IndexOfPages(offset \div limit)
        /\ pc = "regions" =>
              /\ lastReq = [path |-> "services",
                            offset |-> LastOffset(servicePages)]
              /\ pd_lookup = IndexOfPages(PagesRead(servicePages))
              /\ script = "all" => teams_map = TeamsOfPages(PagesRead(teamPages)))
  /\ [][lastReq' # lastReq =>
          /\ lastReq'.offset = offset
          /\ IF lastReq'.path = lastReq.path
             THEN lastReq'.offset = lastReq.offset + limit
             ELSE lastReq'.offset = 0]_vars
  /\ (~throttled) ~> (pc \in {"regions", "raised", "exit"})

\* the two service pages were requested at offsets 0 and limit and the fetch
\* returned their union
C20_Witness ==
  /\ pc = "regions"
  /\ servicePages = SP2
  /\ lastReq = [path |-> "services", offset |-> limit]
  /\ DOMAIN pd_lookup = {K1, K2, K3}


\* C21: the enumeration of a region's alarms always ends, also when the
\* provider returns a continuation token that it has already returned.
C21_EnumerationEnds ==
  [](pc = "describe" => <>(pc # "describe"))


\* the alarms of a region: those of the pages met by following the
\* continuation tokens from the call without token, at most n pages
RECURSIVE Listed(_, _, _)
Listed(chain, tok, n) ==
  IF n = 0 THEN << >>
  ELSE LET page == chain[tok] IN
       page.MetricAlarms
         \o (IF "NextToken" \in DOMAIN page /\ page.NextToken \notin {None, ""}
             THEN Listed(chain, page.NextToken, n - 1) ELSE << >>)

\* the alarms of the regions 1..r, each with its region
RECURSIVE ListedUpTo(_)
ListedUpTo(r) ==
  IF r = 0 THEN << >>
  ELSE LET mine == Listed(account[r], None, 3) IN
       ListedUpTo(r - 1)
         \o [i \in DOMAIN mine |-> [region |-> Regions[r], alarm |-> mine[i]]]

\* the identifiers held by an action field: its pieces between the ";"
RECURSIVE SplitField(_, _)
SplitField(f, cur) ==
  IF f = << >> THEN << cur >>
  ELSE IF Head(f) = ";" THEN << cur >> \o SplitField(Tail(f), << >>)
  ELSE SplitField(Tail(f), Append(cur, Head(f)))

\* C24: the plain alarm report holds exactly one row per alarm of every
\* region, in region order then alarm order; the status is "NoActions"
\* exactly when the alarm's action list is empty or absent, and otherwise
\* "Enabled" when the enabled flag is true and "Disabled" when not; the action
\* field holds all the alarm's actions, non-topic targets included, in their
\* order.
C24_PlainReport ==
  (script = "aws_alarms" /\ written) =>
    LET expected == ListedUpTo(Len(Regions)) IN
    /\ Len(all_rows) = Len(expected)
    /\ \A j \in DOMAIN all_rows :
         LET a == expected[j].alarm
             none == "AlarmActions" \notin DOMAIN a \/ a.AlarmActions = << >>
         IN /\ all_rows[j][1] = expected[j].region
            /\ all_rows[j][2]
                 = (IF "AlarmName" \in DOMAIN a THEN a.AlarmName ELSE None)
            /\ all_rows[j][3] = "NoActions" <=> none
            /\ ~none =>
                 /\ all_rows[j][3]
                      = (IF "ActionsEnabled" \in DOMAIN a /\ a.ActionsEnabled
                         THEN "Enabled" ELSE "Disabled")
                 /\ SplitField(all_rows[j][4], << >>) = a.AlarmActions
            /\ none => all_rows[j][4] = << "" >>

\* a report over two regions and five pages, with its five rows: alarms
\* without actions, with one action, and with several actions of which some
\* are not topics
C24_Witness ==
  /\ script = "aws_alarms"
  /\ written
  /\ account = << ChainTwo, ChainThree >>
  /\ Len(all_rows) = 5
  /\ all_rows[2][3] = "Disabled"
  /\ all_rows[2][4] = Asg \o << ";" >> \o ArnB \o << ";" >> \o ArnC


\* C23: in every row, topic ARN and topic name are empty exactly when the
\* status is "NO_ACTION"; the key is empty exactly in the NO_ACTION rows and
\* the rows of topics without matching subscription, and then the service and
\* team fields are empty; a row with a key carries the index entry of the key,
\* or the sentinels "NOT_FOUND" / "UNKNOWN" when the index lacks the key.
\* Neither the index nor the lookup being built holds an empty or missing key.
C23_RowFields ==
  /\ \A j \in DOMAIN rows :
       LET r == rows[j]
           noAction == r.AlarmActionStatus = "NO_ACTION"
       IN /\ noAction <=> rowSrc[j][3] = 0
          /\ r.SNSTopicArn = << "" >> <=> noAction
          /\ r.SNSTopicName = "" <=> noAction
          /\ r.IntegrationKey = << >> <=> (noAction \/ rowSrc[j][4] = 0)
          /\ r.IntegrationKey # << "None" >>
          /\ r.IntegrationKey = << >> =>
               /\ r.PagerDutyServiceID = "" /\ r.PagerDutyServiceName = ""
               /\ script = "all" =>
                    r.PagerDutyTeamID = "" /\ r.PagerDutyTeamName = ""
          /\ (r.IntegrationKey # << >> /\ r.IntegrationKey \in DOMAIN pd_lookup) =>
               LET e == pd_lookup[r.IntegrationKey] IN
               IF script = "all"
               THEN /\ r.PagerDutyServiceID = e.service_id
                    /\ r.PagerDutyServiceName = e.service_name
                    /\ r.PagerDutyTeamID = e.team_id
                    /\ r.PagerDutyTeamName = e.team_name
               ELSE /\ r.PagerDutyServiceID = e[1]
                    /\ r.PagerDutyServiceName = e[2]
          /\ (r.IntegrationKey # << >> /\ r.IntegrationKey \notin DOMAIN pd_lookup) =>
               /\ r.PagerDutyServiceID = "NOT_FOUND"
               /\ r.PagerDutyServiceName = "NOT_FOUND"
               /\ script = "all" => /\ r.PagerDutyTeamID = "UNKNOWN"
                                    /\ r.PagerDutyTeamName = "UNKNOWN"
  /\ \A key \in DOMAIN pd_lookup \cup DOMAIN lookup :
       key # << >> /\ key # << "None" >> /\ Len(key) >= 1

\* a report with a row of a topic without matching subscription, a row
\* resolved through the index and a row with the sentinels
C23_Witness ==
  /\ written
  /\ \E j \in DOMAIN rows : rowSrc[j][3] > 0 /\ rowSrc[j][4] = 0
  /\ \E j \in DOMAIN rows : /\ rows[j].IntegrationKey \in DOMAIN pd_lookup
                            /\ rows[j].PagerDutyServiceID = "S1"
  /\ \E j \in DOMAIN rows : rows[j].PagerDutyServiceID = "NOT_FOUND"


\* ------------------------------------ a whole run as a function of its inputs
\* for arn in actions: the rows of the targets t, t+1, ... of alarm a when
\* every listing succeeds
RECURSIVE ActionsRows(_, _, _, _, _)
ActionsRows(scr, region, a, index, t) ==
  IF t > Len(ActionsOf(a)) THEN << >>
  ELSE LET arn == ActionsOf(a)[t]
           listed == ListSubscriptions(scr, TopicSubs(arn), 0).subs
       IN (IF IsTopicArn(arn)
           THEN TargetRows(scr, region, Get(a, "AlarmName", NoName),
                           ActionStatus(a), arn, index, listed).rows
           ELSE << >>)
          \o ActionsRows(scr, region, a, index, t + 1)

\* the body of `for alarm in ...`
AlarmRows(scr, region, a, index) ==
  IF ActionsOf(a) = << >>
  THEN << NoActionRow(scr, region, Get(a, "AlarmName", NoName)) >>
  ELSE ActionsRows(scr, region, a, index, 1)

\* the rows of the first n alarms of log, the alarms the regions yielded
RECURSIVE ReportRows(_, _, _, _)
ReportRows(scr, index, log, n) ==
  IF n = 0 THEN << >>
  ELSE ReportRows(scr, index, log, n - 1)
         \o AlarmRows(scr, Regions[log[n].src[1]], log[n].alarm, index)

\* all.py on the team pages tp, the service pages sp and the alarms of log,
\* every request answered 200 and every cloud call succeeding
AllPyRun(tp, sp, log) ==
  LET ts == Flatten(tp, "teams", PagesRead(tp))
      services == Flatten(sp, "services", PagesRead(sp))
  IN IF TeamsKeyError(ts)
     THEN [error |-> "KeyError", written |-> FALSE, rows |-> << >>]
     ELSE [error |-> None, written |-> TRUE,
           rows |-> ReportRows("all",
                               ServicesLoop("all", EmptyDict, services,
                                            TeamsLoop(EmptyDict, ts)),
                               log, Len(log))]

\* the team pages all.py can meet together with the service pages sp
TeamPagesWith(sp) == { w[1] : w \in { v \in PDWorlds : v[2] = sp } }

\* no cloud call of the run failed
NoRemoteError == \A i \in DOMAIN awsLog : awsLog[i].ok

TeamColumns == { "PagerDutyTeamName", "PagerDutyTeamID" }

\* row n of new.py is row a of all.py without the team columns
SameButTeams(n, a) ==
  /\ DOMAIN a = DOMAIN n \cup TeamColumns
  /\ \A f \in DOMAIN n : n[f] = a[f]

\* the model's run of all.py and its run as a function agree
AllPyRunAgrees ==
  (script = "all" /\ written) =>
    /\ AllPyRun(teamPages, servicePages, alarmLog).written
    /\ AllPyRun(teamPages, servicePages, alarmLog).rows = rows

\* C22: when new.py has written its report without any remote error, all.py
\* on the same service pages, regions, alarms and subscriptions writes a
\* report with the same number of rows in the same order, each row of new.py
\* being the row of all.py without the two team columns.
C22_SameRows ==
  (script = "new" /\ written /\ NoRemoteError) =>
    \A tp \in TeamPagesWith(servicePages) :
       LET other == AllPyRun(tp, servicePages, alarmLog) IN
       /\ other.written
       /\ Len(other.rows) = Len(rows)
       /\ \A j \in DOMAIN rows : SameButTeams(rows[j], other.rows[j])

\* the same, for the team pages on which all.py does not stop
C22_SameRowsIfAllPyEnds ==
  (script = "new" /\ written /\ NoRemoteError) =>
    \A tp \in TeamPagesWith(servicePages) :
       LET other == AllPyRun(tp, servicePages, alarmLog) IN
       other.written =>
         /\ Len(other.rows) = Len(rows)
         /\ \A j \in DOMAIN rows : SameButTeams(rows[j], other.rows[j])

\* ---------------------------------------------------------------- C25
\* events lambda3's handler can turn into a notification: a bare payload, an
\* SNS delivery of its JSON text, and one of the JSON text encoded twice
Deliverable ==
  { PGood, PPlain, PEmpty, Wrapper(GoodText), Wrapper(PlainText),
    Wrapper(PlainTextTwice) }

\* C25: an invocation of lambda3's handler never raises: whatever the event
\* and the webhook do, it returns a response whose statusCode is 200 when
\* the post was made and accepted and 500 otherwise; a plain, wrapped or
\* doubly encoded payload with a working webhook gets 200. An invocation of
\* lambda2's handler whose post fails ends with the exception.
C25_Lambda3AlwaysAnswers ==
  /\ (script = "lambda3" /\ pc # "invoke") =>
        /\ pc = "returned"
        /\ ~response.raised
        /\ response.statusCode =
             (IF response.posted = "ok" THEN 200 ELSE 500)
        /\ response.posted = "ok" => post_ok
        /\ (event \in Deliverable /\ post_ok) => response.statusCode = 200
  /\ (script = "lambda2" /\ pc # "invoke" /\ ~post_ok) =>
        /\ pc = "raised"
        /\ response.raised
        /\ response.statusCode = 0
  /\ (script = "lambda2" /\ pc # "invoke" /\ response.posted = "ok") =>
        pc = "returned" /\ response.statusCode = 200

\* lambda3 answered 500 to a doubly encoded delivery whose post failed, and
\* to a delivery whose message is not JSON
C25_Witness ==
  /\ script = "lambda3"
  /\ pc = "returned"
  /\ response.statusCode = 500
  /\ \/ event = Wrapper(PlainTextTwice) /\ response.posted = "failed"
     \/ event = Wrapper(BadText) /\ response.posted = "no"

====
